---- MODULE Spec2Model ----
(***************************************************************************)
(* GitHub-backed document synchronisation engine (GitHubDocsService).      *)
(*                                                                         *)
(* The service runs on a single-threaded event loop: the code between two  *)
(* awaits runs to completion.  Every action below is one such stretch of   *)
(* code, started by the event that resumes it (a network response, a timer *)
(* tick, a call from the UI).  The one stretch that is split in steps is   *)
(* the cache replacement at the end of getAllDocs (clear, then one set per *)
(* document); while it runs, `running` names the task that owns the event  *)
(* loop and no other handler can start.                                    *)
(***************************************************************************)
EXTENDS Integers, FiniteSets, Sequences, TLC

\* ---- bounds of the model -------------------------------------------------
MaxFiles == 2   \* Markdown files (slugs) the repository can hold
MaxHead  == 3   \* commits the branch head can go through
MaxPolls == 2   \* checkForUpdates cycles that can be in flight at once
MaxTime  == 7   \* minutes the clock runs for
MaxDocs  == 3   \* documents in the list given to buildTreeFromDocs
MaxOrder == 1   \* largest `order` a document carries
MaxTags  == 2   \* tags in a metadata record
MaxLines == 3   \* lines of a text given to a frontmatter parser
MaxListeners == 3   \* addListener calls the registry is followed through

Files == 1..MaxFiles
Vers  == 0..MaxHead         \* a content is named by the commit that wrote it; 0: none
Polls == 1..MaxPolls

\* Tasks that can have a getAllDocs call in flight.
InitTask == 0               \* initializeService
HookTask == MaxPolls + 1    \* useGitHubDocsList.fetchDocs
Tasks    == 0..(MaxPolls + 1)
NoTask   == -1

Null     == 0               \* lastCommitSha: string | null
Pending  == -1              \* a file promise that has not settled
NoDocs   == [f \in Files |-> 0]

VARIABLES
  head,           \* remote: the branch's head commit
  remote,         \* remote: content version of each file (0: not in the tree)
  cache,          \* this.cache: slug -> document (0: no entry)
  stable,         \* the cache as the last completed handler left it
  lastCommitSha,  \* this.lastCommitSha
  initialized,    \* this.initialized
  timers,         \* interval timers created by startPolling
  initpc,         \* initializeService: "new", "refresh", "done"
  ga,             \* per task: the getAllDocs call in flight
  pollpc,         \* per cycle slot: "idle", "head", "refresh"
  pollSha,        \* per cycle slot: currentSha
  mounted,        \* useGitHubDocsList mounted (its handler is in this.listeners)
  hookDocs,       \* useGitHubDocsList: docs
  hookError,      \* useGitHubDocsList: error !== null
  running,        \* the task inside a synchronous stretch, or NoTask
  unhandled,      \* a rejected promise nobody handles was produced
  notified,       \* the last step called notifyListeners
  ev,             \* what the last step was: [op, task]
  save,           \* createOrUpdateDoc: the call in flight [pc, slug, doc] and,
                  \* per slug, the document of the last save that succeeded
  listeners,      \* this.listeners, in insertion order
  invoked,        \* the callbacks the last step's notifyListeners() called
  gd,             \* per slug: the getDocBySlug fallback fetch in flight
  page,           \* DocsPage: [st, slug] (loading, doc, notFound, error)
  now,            \* Date.now(), in minutes
  mem,            \* GitHubDocsCache (instance): this.cache
  storage,        \* localStorage['github-docs-cache'] of the instance cache
  gc,             \* per slug: the getDoc call in flight and its `cached`
  sdocs,          \* GitHubDocsCache (static): localStorage[CACHE_KEY]
  stamp,          \* GitHubDocsCache (static): localStorage[CACHE_TIMESTAMP_KEY]
  navDocs,        \* buildTreeFromDocs: docs
  navSection,     \* buildTreeFromDocs: section
  navTree,        \* buildTreeFromDocs: the tree returned, or NoTree
  fmMeta,         \* frontmatter: the metadata a document is saved with
  fmBody,         \* frontmatter: the body a document is saved with
  fmText,         \* frontmatter: the text of a file
  fmOut           \* frontmatter: what the parser returned, or NoOut

vars == <<head, remote, cache, stable, lastCommitSha, initialized, timers,
          initpc, ga, pollpc, pollSha, mounted, hookDocs, hookError,
          running, unhandled, notified, ev, save, listeners, invoked,
          gd, page, now, mem, storage, gc, sdocs, stamp,
          navDocs, navSection, navTree,
          fmMeta, fmBody, fmText, fmOut>>

\* the state of GitHubDocsService and of useGitHubDocsList
svcVars   == <<head, remote, cache, stable, lastCommitSha, initialized, timers,
               initpc, ga, pollpc, pollSha, mounted, hookDocs, hookError,
               running, unhandled, notified, save, listeners, invoked>>
\* the createOrUpdateDoc call in flight and the registered listeners
editVars  == <<save, listeners>>
\* the state of the page and of getDocBySlug calls
docVars   == <<gd, page>>
\* the state of the two document caches and the clock
cacheVars == <<now, mem, storage, gc, sdocs, stamp>>
\* the state of the navigation tree builder
navVars   == <<navDocs, navSection, navTree>>
\* the state of the frontmatter serializer and parsers
fmVars    == <<fmMeta, fmBody, fmText, fmOut>>

IdleCall == [pc |-> "idle", listed |-> {}, res |-> NoDocs]
Ev(op, t) == [op |-> op, task |-> t]

\* ---- pure helpers --------------------------------------------------------

\* results.filter(doc => doc !== null): the files whose promise gave a document
DocsOf(call) == {f \in call.listed : call.res[f] > 0}

\* the files whose promise gave null
FailedOf(call) == {f \in call.listed : call.res[f] = 0}

\* the document set DocsOf(call) as a slug -> document map
DocMap(call) == [f \in Files |-> IF f \in DocsOf(call) THEN call.res[f] ELSE 0]

Min(S) == CHOOSE x \in S : \A y \in S : x <= y

\* ---- remote repository ---------------------------------------------------

\* A commit that touches no Markdown file lands on the tracked branch: the
\* head moves, the documents stay.
PushOther ==
  /\ head < MaxHead
  /\ head' = head + 1
  /\ notified' = FALSE /\ invoked' = <<>>
  /\ ev' = Ev("none", NoTask)
  /\ UNCHANGED <<remote, cache, stable, lastCommitSha, initialized, timers,
                 initpc, ga, pollpc, pollSha, mounted, hookDocs, hookError,
                 running, unhandled>>
  /\ UNCHANGED <<editVars, docVars, cacheVars, navVars, fmVars>>

\* A commit that edits, adds or deletes one Markdown file lands on the
\* tracked branch.
PushDoc ==
  /\ head < MaxHead
  /\ head' = head + 1
  /\ \E f \in Files, v \in {0, head + 1} :
       /\ v # remote[f]
       /\ remote' = [remote EXCEPT ![f] = v]
  /\ notified' = FALSE /\ invoked' = <<>>
  /\ ev' = Ev("none", NoTask)
  /\ UNCHANGED <<cache, stable, lastCommitSha, initialized, timers, initpc, ga,
                 pollpc, pollSha, mounted, hookDocs, hookError, running,
                 unhandled>>
  /\ UNCHANGED <<editVars, docVars, cacheVars, navVars, fmVars>>

\* ---- listeners -----------------------------------------------------------

\* The callbacks: the handleUpdate closure of the mounted useGitHubDocsList,
\* and a callback of another subscriber of the service.
HandleUpdate   == "handleUpdate"
OtherCallback  == "other"

NoSave == [pc |-> "idle", slug |-> 0, doc |-> 0, done |-> NoDocs]

\* the elements of a list
Range(l) == {l[i] : i \in 1..Len(l)}

\* A registry kept as an array: every add appends.
SetAdd_push(l, cb) == Append(l, cb)

\* Set.prototype.add: a value that is in the set is not added again; the set
\* keeps the order of insertion.
SetAdd(l, cb) == IF cb \in Range(l) THEN l ELSE Append(l, cb)

\* Set.prototype.delete
SetDelete(l, cb) ==
  LET Other(x) == x # cb
  IN SelectSeq(l, Other)

\* notifyListeners(): this.listeners.forEach(callback => callback()), every
\* registered callback runs, synchronously.  handleUpdate does
\* setDocs(service.getCachedDocs()).
notifyListeners(c) ==
  /\ notified' = TRUE
  /\ invoked' = listeners
  /\ hookDocs' = IF HandleUpdate \in Range(listeners) THEN c ELSE hookDocs

\* ---- polling -------------------------------------------------------------

\* checkForUpdates() up to its first await: the branch request is sent.  The
\* cycle takes the lowest free slot; with every slot busy the model drops it.
checkForUpdates_call(pp) ==
  IF \E s \in Polls : pp[s] = "idle"
  THEN [pp EXCEPT ![Min({s \in Polls : pp[s] = "idle"})] = "head"]
  ELSE pp

\* startPolling(): setInterval(...), then one checkForUpdates() at once.
startPolling ==
  /\ timers' = timers + 1
  /\ pollpc' = checkForUpdates_call(pollpc)

\* The same test without the check that a head is on record.
ShouldRefresh_noNullCheck(last, cur) == last # cur

\* if (this.lastCommitSha && this.lastCommitSha !== currentSha)
ShouldRefresh(last, cur) == last # Null /\ last # cur

\* The assignment moved inside the if: the head is recorded only by a cycle
\* that refreshed.
RecordedHead_onlyOnRefresh(last, cur, refreshed) == IF refreshed THEN cur ELSE last

\* this.lastCommitSha = currentSha, reached on both branches of the if
RecordedHead(last, cur, refreshed) == cur

\* checkForUpdates without its catch block: the promise of the cycle rejects.
CycleErrorPropagates_noCatch == TRUE

\* catch (error) { console.error(...) } around the whole of checkForUpdates:
\* nothing is rethrown, the promise of the cycle resolves.
CycleErrorPropagates == FALSE

\* ---- the continuations of `await this.getAllDocs()` -----------------------

\* initializeService whose catch block only logs: a failed initial load
\* leaves the engine without a polling loop.
initializeService_resume_noPollOnFail(ok) ==
  /\ initpc' = "done"
  /\ initialized' = (ok \/ initialized)
  /\ IF ok THEN startPolling ELSE UNCHANGED <<timers, pollpc>>
  /\ notified' = FALSE /\ invoked' = <<>>
  /\ UNCHANGED <<lastCommitSha, pollSha, hookDocs, hookError, unhandled>>

\* initializeService, after the await: try branch (ok) or catch branch.
initializeService_resume(ok) ==
  /\ initpc' = "done"
  /\ initialized' = (ok \/ initialized)
  /\ startPolling
  /\ notified' = FALSE /\ invoked' = <<>>
  /\ UNCHANGED <<lastCommitSha, pollSha, hookDocs, hookError, unhandled>>

\* notifyListeners() called before the refresh has replaced the cache: the
\* callbacks read the set of before the swap.
CachedDocsAtNotify_beforeSwap(c, old) == old

\* What service.getCachedDocs() returns inside a callback: notifyListeners()
\* comes after `await this.getAllDocs()`, in the stretch that follows the
\* clear and the sets, so the callbacks read the cache as the refresh left it.
CachedDocsAtNotify(c, old) == c

\* checkForUpdates, after the await: notify and record the head (ok), or the
\* catch block.
checkForUpdates_resume(t, ok) ==
  /\ pollpc' = [pollpc EXCEPT ![t] = "idle"]
  /\ pollSha' = [pollSha EXCEPT ![t] = Null]
  /\ IF ok
     THEN /\ notifyListeners(CachedDocsAtNotify(cache, stable))
          /\ lastCommitSha' = RecordedHead(lastCommitSha, pollSha[t], TRUE)
          /\ unhandled' = unhandled
     ELSE /\ notified' = FALSE /\ invoked' = <<>>
          /\ unhandled' = (unhandled \/ CycleErrorPropagates)
          /\ UNCHANGED <<lastCommitSha, hookDocs>>
  /\ UNCHANGED <<initpc, initialized, timers, hookError>>

\* useGitHubDocsList.fetchDocs, after the await: setDocs(allDocs) or
\* setError(...).  A component that was unmounted meanwhile keeps no state.
fetchDocs_resume(ok, docs) ==
  /\ hookDocs' = IF mounted /\ ok THEN docs ELSE hookDocs
  /\ hookError' = IF mounted /\ ~ok THEN TRUE ELSE hookError
  /\ notified' = FALSE /\ invoked' = <<>>
  /\ UNCHANGED <<initpc, initialized, timers, pollpc, pollSha, lastCommitSha,
                 unhandled>>

Resume(t, ok, docs) ==
  IF t = InitTask THEN initializeService_resume(ok)
  ELSE IF t \in Polls THEN checkForUpdates_resume(t, ok)
  ELSE fetchDocs_resume(ok, docs)

\* ---- construction --------------------------------------------------------

\* initializeService that does not wait for the initial load: getAllDocs() is
\* called and polling starts in the same stretch.
initializeService_call_noAwait ==
  /\ initpc' = "refresh"
  /\ ga' = [ga EXCEPT ![InitTask] = [IdleCall EXCEPT !.pc = "tree"]]
  /\ startPolling

\* initializeService() up to its await: getAllDocs() is called, which sends
\* the tree request.  Nothing else is started.
initializeService_call ==
  /\ initpc' = "refresh"
  /\ ga' = [ga EXCEPT ![InitTask] = [IdleCall EXCEPT !.pc = "tree"]]
  /\ UNCHANGED <<timers, pollpc>>

\* new GitHubDocsService(config)
Construct ==
  /\ initpc = "new"
  /\ initializeService_call
  /\ notified' = FALSE /\ invoked' = <<>>
  /\ ev' = Ev("none", NoTask)
  /\ UNCHANGED <<head, remote, cache, stable, lastCommitSha, initialized,
                 pollSha, mounted, hookDocs, hookError, running,
                 unhandled>>
  /\ UNCHANGED <<editVars, docVars, cacheVars, navVars, fmVars>>

\* ---- getAllDocs ----------------------------------------------------------

\* The tree request succeeds: the listing is the Markdown files under the base
\* path as the repository holds them now; files.map(...) sends one content
\* request per file.
getFileTree_ok(t) ==
  /\ running = NoTask
  /\ ga[t].pc = "tree"
  /\ LET listed == {f \in Files : remote[f] > 0}
     IN ga' = [ga EXCEPT ![t] = [pc |-> "files", listed |-> listed,
                  res |-> [f \in Files |-> IF f \in listed THEN Pending ELSE 0]]]
  /\ notified' = FALSE /\ invoked' = <<>>
  /\ ev' = Ev("none", NoTask)
  /\ UNCHANGED <<head, remote, cache, stable, lastCommitSha, initialized,
                 timers, initpc, pollpc, pollSha, mounted, hookDocs, hookError, running, unhandled>>
  /\ UNCHANGED <<editVars, docVars, cacheVars, navVars, fmVars>>

\* getAllDocs that empties the cache when the listing fails.
CacheAfterTreeFailure_cleared(c) == NoDocs

\* What the catch block of getAllDocs leaves in the cache: it logs and
\* rethrows, and nothing before the listing has touched the cache.
CacheAfterTreeFailure(c) == c

\* The tree request fails (network error, non-success status, a body without
\* a tree): getFileTree throws, getAllDocs rethrows to its caller.
getFileTree_fail(t) ==
  /\ running = NoTask
  /\ ga[t].pc = "tree"
  /\ ga' = [ga EXCEPT ![t] = IdleCall]
  /\ cache' = CacheAfterTreeFailure(cache)
  /\ stable' = cache'
  /\ Resume(t, FALSE, NoDocs)
  /\ ev' = Ev("refreshThrew", t)
  /\ UNCHANGED <<head, remote, mounted, running>>
  /\ UNCHANGED <<editVars, docVars, cacheVars, navVars, fmVars>>

\* One file's content request succeeds and the file is processed: the promise
\* of the file resolves to its document, read as the repository holds it now.
getFileContent_ok(t, f) ==
  /\ running = NoTask
  /\ ga[t].pc = "files"
  /\ ga[t].res[f] = Pending
  /\ remote[f] > 0
  /\ ga' = [ga EXCEPT ![t].res[f] = remote[f]]
  /\ notified' = FALSE /\ invoked' = <<>>
  /\ ev' = Ev("none", NoTask)
  /\ UNCHANGED <<head, remote, cache, stable, lastCommitSha, initialized,
                 timers, initpc, pollpc, pollSha, mounted, hookDocs, hookError, running, unhandled>>
  /\ UNCHANGED <<editVars, docVars, cacheVars, navVars, fmVars>>

\* files.map without its try/catch: the first file that fails rejects
\* Promise.all, and getAllDocs rethrows to its caller.
getAllDocs_fileCatch_abort(t, f) ==
  /\ ga' = [ga EXCEPT ![t] = IdleCall]
  /\ Resume(t, FALSE, NoDocs)
  /\ ev' = Ev("refreshThrew", t)
  /\ UNCHANGED <<cache, stable>>

\* The try/catch inside files.map: a file whose fetch or processing throws
\* resolves to null; the other files and the batch go on.
getAllDocs_fileCatch(t, f) ==
  /\ ga' = [ga EXCEPT ![t].res[f] = 0]
  /\ notified' = FALSE /\ invoked' = <<>>
  /\ ev' = Ev("none", NoTask)
  /\ UNCHANGED <<cache, stable, lastCommitSha, initialized, timers, initpc,
                 pollpc, pollSha, hookDocs, hookError, unhandled>>

\* One file's content request fails (network error, 404 for a file deleted
\* since the listing, other status) or its content cannot be decoded.
getFileContent_fail(t, f) ==
  /\ running = NoTask
  /\ ga[t].pc = "files"
  /\ ga[t].res[f] = Pending
  /\ getAllDocs_fileCatch(t, f)
  /\ UNCHANGED <<head, remote, mounted, running>>
  /\ UNCHANGED <<editVars, docVars, cacheVars, navVars, fmVars>>

\* An await between the clear and the forEach: the event loop is released
\* with the cache empty.
RunningAfterClear_yield(t) == NoTask

\* Who owns the event loop after this.cache.clear(): the clear and the
\* docs.forEach(... this.cache.set ...) that follows are one synchronous
\* stretch of getAllDocs.
RunningAfterClear(t) == t

\* A refresh that does not clear: the new documents are stored over the
\* entries that are there.
CacheAfterClear_kept(c) == c

\* this.cache.clear()
CacheAfterClear(c) == NoDocs

\* Promise.all has resolved: docs is built and the cache is cleared.
getAllDocs_clear(t) ==
  /\ running = NoTask
  /\ ga[t].pc = "files"
  /\ \A f \in ga[t].listed : ga[t].res[f] # Pending
  /\ cache' = CacheAfterClear(cache)
  /\ ga' = [ga EXCEPT ![t].pc = "fill"]
  /\ running' = RunningAfterClear(t)
  /\ notified' = FALSE /\ invoked' = <<>>
  /\ ev' = Ev("none", NoTask)
  /\ UNCHANGED <<head, remote, stable, lastCommitSha, initialized, timers,
                 initpc, pollpc, pollSha, mounted, hookDocs, hookError,
                 unhandled>>
  /\ UNCHANGED <<editVars, docVars, cacheVars, navVars, fmVars>>

\* the documents of the call that docs.forEach has not stored yet
ToStore(t) == {f \in DocsOf(ga[t]) : cache[f] # ga[t].res[f]}

\* docs.forEach: this.cache.set(doc.slug, doc) for the next document.
getAllDocs_set(t) ==
  /\ running \in {t, NoTask}
  /\ ga[t].pc = "fill"
  /\ ToStore(t) # {}
  /\ LET f == Min(ToStore(t))
     IN cache' = [cache EXCEPT ![f] = ga[t].res[f]]
  /\ notified' = FALSE /\ invoked' = <<>>
  /\ ev' = Ev("none", NoTask)
  /\ UNCHANGED <<head, remote, stable, lastCommitSha, initialized, timers,
                 initpc, ga, pollpc, pollSha, mounted, hookDocs, hookError, running, unhandled>>
  /\ UNCHANGED <<editVars, docVars, cacheVars, navVars, fmVars>>

\* getAllDocs returns docs; its caller resumes after the await.
getAllDocs_return(t) ==
  /\ running \in {t, NoTask}
  /\ ga[t].pc = "fill"
  /\ ToStore(t) = {}
  /\ ga' = [ga EXCEPT ![t] = IdleCall]
  /\ running' = NoTask
  /\ stable' = cache
  /\ Resume(t, TRUE, DocMap(ga[t]))
  /\ ev' = Ev("refreshOk", t)
  /\ UNCHANGED <<head, remote, cache, mounted>>
  /\ UNCHANGED <<editVars, docVars, cacheVars, navVars, fmVars>>

\* ---- checkForUpdates -----------------------------------------------------

\* setInterval fires: checkForUpdates() is called, whether or not an earlier
\* cycle is still in flight.
TickEnabled ==
  /\ running = NoTask
  /\ timers > 0
  /\ \E s \in Polls : pollpc[s] = "idle"

Tick ==
  /\ TickEnabled
  /\ pollpc' = checkForUpdates_call(pollpc)
  /\ notified' = FALSE /\ invoked' = <<>>
  /\ ev' = Ev("none", NoTask)
  /\ UNCHANGED <<head, remote, cache, stable, lastCommitSha, initialized,
                 timers, initpc, ga, pollSha, mounted, hookDocs, hookError, running, unhandled>>
  /\ UNCHANGED <<editVars, docVars, cacheVars, navVars, fmVars>>

\* The branch request succeeds (response.ok): currentSha is the head now.
checkForUpdates_head(t) ==
  /\ running = NoTask
  /\ pollpc[t] = "head"
  /\ IF ShouldRefresh(lastCommitSha, head)
     THEN /\ pollpc' = [pollpc EXCEPT ![t] = "refresh"]
          /\ pollSha' = [pollSha EXCEPT ![t] = head]
          /\ ga' = [ga EXCEPT ![t] = [IdleCall EXCEPT !.pc = "tree"]]
          /\ ev' = Ev("pollRefresh", t)
          /\ UNCHANGED lastCommitSha
     ELSE /\ pollpc' = [pollpc EXCEPT ![t] = "idle"]
          /\ lastCommitSha' = RecordedHead(lastCommitSha, head, FALSE)
          /\ ev' = Ev("pollSkip", t)
          /\ UNCHANGED <<pollSha, ga>>
  /\ notified' = FALSE /\ invoked' = <<>>
  /\ UNCHANGED <<head, remote, cache, stable, initialized, timers, initpc,
                 mounted, hookDocs, hookError, running, unhandled>>
  /\ UNCHANGED <<editVars, docVars, cacheVars, navVars, fmVars>>

\* The branch request answers with a non-success status: the body of
\* if (response.ok) is skipped.
checkForUpdates_notOk(t) ==
  /\ running = NoTask
  /\ pollpc[t] = "head"
  /\ pollpc' = [pollpc EXCEPT ![t] = "idle"]
  /\ notified' = FALSE /\ invoked' = <<>>
  /\ ev' = Ev("pollNotOk", t)
  /\ UNCHANGED <<head, remote, cache, stable, lastCommitSha, initialized,
                 timers, initpc, ga, pollSha, mounted, hookDocs, hookError, running, unhandled>>
  /\ UNCHANGED <<editVars, docVars, cacheVars, navVars, fmVars>>

\* The branch request throws (network error, unreadable body): catch block.
checkForUpdates_threw(t) ==
  /\ running = NoTask
  /\ pollpc[t] = "head"
  /\ pollpc' = [pollpc EXCEPT ![t] = "idle"]
  /\ unhandled' = (unhandled \/ CycleErrorPropagates)
  /\ notified' = FALSE /\ invoked' = <<>>
  /\ ev' = Ev("pollThrew", t)
  /\ UNCHANGED <<head, remote, cache, stable, lastCommitSha, initialized,
                 timers, initpc, ga, pollSha, mounted, hookDocs, hookError, running>>
  /\ UNCHANGED <<editVars, docVars, cacheVars, navVars, fmVars>>

\* ---- callers in the UI ---------------------------------------------------

\* useGitHubDocsList's effect: service.addListener(handleUpdate); fetchDocs().
Mount ==
  /\ running = NoTask
  /\ initpc # "new"
  /\ ~mounted
  /\ ga[HookTask].pc = "idle"
  /\ mounted' = TRUE
  /\ hookDocs' = NoDocs
  /\ hookError' = FALSE
  /\ ga' = [ga EXCEPT ![HookTask] = [IdleCall EXCEPT !.pc = "tree"]]
  /\ notified' = FALSE /\ invoked' = <<>>
  /\ ev' = Ev("none", NoTask)
  /\ UNCHANGED <<head, remote, cache, stable, lastCommitSha, initialized,
                 timers, initpc, pollpc, pollSha, running, unhandled>>
  /\ listeners' = SetAdd(listeners, HandleUpdate)
  /\ UNCHANGED <<save, docVars, cacheVars, navVars, fmVars>>

\* refetch(): fetchDocs() again; setError(null), then await getAllDocs().
Refetch ==
  /\ running = NoTask
  /\ mounted
  /\ ga[HookTask].pc = "idle"
  /\ hookError' = FALSE
  /\ ga' = [ga EXCEPT ![HookTask] = [IdleCall EXCEPT !.pc = "tree"]]
  /\ notified' = FALSE /\ invoked' = <<>>
  /\ ev' = Ev("none", NoTask)
  /\ UNCHANGED <<head, remote, cache, stable, lastCommitSha, initialized,
                 timers, initpc, pollpc, pollSha, mounted, hookDocs,
                 running, unhandled>>
  /\ UNCHANGED <<editVars, docVars, cacheVars, navVars, fmVars>>

\* The effect's cleanup: service.removeListener(handleUpdate); the state of
\* the component is dropped.
Unmount ==
  /\ running = NoTask
  /\ mounted
  /\ mounted' = FALSE
  /\ hookDocs' = NoDocs
  /\ hookError' = FALSE
  /\ notified' = FALSE /\ invoked' = <<>>
  /\ ev' = Ev("none", NoTask)
  /\ UNCHANGED <<head, remote, cache, stable, lastCommitSha, initialized,
                 timers, initpc, ga, pollpc, pollSha, running, unhandled>>
  /\ listeners' = SetDelete(listeners, HandleUpdate)
  /\ UNCHANGED <<save, docVars, cacheVars, navVars, fmVars>>

\* getCachedDocs(), called by a reader as a task of its own: it returns the
\* cache as it is now.
getCachedDocs ==
  /\ running = NoTask
  /\ initpc # "new"
  /\ notified' = FALSE /\ invoked' = <<>>
  /\ ev' = Ev("read", NoTask)
  /\ UNCHANGED <<head, remote, cache, stable, lastCommitSha, initialized,
                 timers, initpc, ga, pollpc, pollSha, mounted, hookDocs,
                 hookError, running, unhandled>>
  /\ UNCHANGED <<editVars, docVars, cacheVars, navVars, fmVars>>

\* ---- the listener registry ---------------------------------------------------

\* addListener(callback), called by a subscriber other than the hook
addListener(cb) ==
  /\ running = NoTask
  /\ initpc # "new"
  /\ Len(listeners) < MaxListeners
  /\ listeners' = SetAdd(listeners, cb)
  /\ notified' = FALSE /\ invoked' = <<>>
  /\ ev' = Ev("addListener", NoTask)
  /\ UNCHANGED <<head, remote, cache, stable, lastCommitSha, initialized,
                 timers, initpc, ga, pollpc, pollSha, mounted, hookDocs,
                 hookError, running, unhandled, save>>
  /\ UNCHANGED <<docVars, cacheVars, navVars, fmVars>>

\* removeListener(callback), called by a subscriber other than the hook
removeListener(cb) ==
  /\ running = NoTask
  /\ initpc # "new"
  /\ listeners' = SetDelete(listeners, cb)
  /\ notified' = FALSE /\ invoked' = <<>>
  /\ ev' = Ev("removeListener", NoTask)
  /\ UNCHANGED <<head, remote, cache, stable, lastCommitSha, initialized,
                 timers, initpc, ga, pollpc, pollSha, mounted, hookDocs,
                 hookError, running, unhandled, save>>
  /\ UNCHANGED <<docVars, cacheVars, navVars, fmVars>>

\* ---- createOrUpdateDoc ----------------------------------------------------

\* createOrUpdateDoc(doc) up to its first await: the request for the file as
\* it is in the repository is sent.  EditPage.handleSave awaits the call.
createOrUpdateDoc_call(f) ==
  /\ running = NoTask
  /\ initpc # "new"
  /\ save.pc = "idle"
  /\ save' = [save EXCEPT !.pc = "get", !.slug = f]
  /\ notified' = FALSE /\ invoked' = <<>>
  /\ ev' = Ev("none", NoTask)
  /\ UNCHANGED <<head, remote, cache, stable, lastCommitSha, initialized,
                 timers, initpc, ga, pollpc, pollSha, mounted, hookDocs,
                 hookError, running, unhandled, listeners>>
  /\ UNCHANGED <<docVars, cacheVars, navVars, fmVars>>

\* The first request has settled (found, not found or failed: all go on), the
\* PUT is sent and the repository accepts it: a commit with the document
\* lands on the branch.
createOrUpdateDoc_put ==
  /\ running = NoTask
  /\ save.pc = "get"
  /\ head < MaxHead
  /\ head' = head + 1
  /\ remote' = [remote EXCEPT ![save.slug] = head + 1]
  /\ save' = [save EXCEPT !.pc = "put", !.doc = head + 1]
  /\ notified' = FALSE /\ invoked' = <<>>
  /\ ev' = Ev("none", NoTask)
  /\ UNCHANGED <<cache, stable, lastCommitSha, initialized, timers, initpc, ga,
                 pollpc, pollSha, mounted, hookDocs, hookError, running,
                 unhandled, listeners>>
  /\ UNCHANGED <<docVars, cacheVars, navVars, fmVars>>

\* A save that leaves the cache as it is.
CacheAfterSave_notStored(c, f, doc) == c

\* this.cache.set(doc.slug, doc)
CacheAfterSave(c, f, doc) == [c EXCEPT ![f] = doc]

\* The PUT answers with success: the cache entry is set and the listeners
\* are notified, in one stretch; the promise of the call resolves.
createOrUpdateDoc_saved ==
  /\ running = NoTask
  /\ save.pc = "put"
  /\ cache' = CacheAfterSave(cache, save.slug, save.doc)
  /\ stable' = cache'
  /\ notifyListeners(cache')
  /\ save' = [NoSave EXCEPT !.done = [save.done EXCEPT ![save.slug] = save.doc]]
  /\ ev' = Ev("saved", NoTask)
  /\ UNCHANGED <<head, remote, lastCommitSha, initialized, timers, initpc, ga,
                 pollpc, pollSha, mounted, hookError, running, unhandled,
                 listeners>>
  /\ UNCHANGED <<docVars, cacheVars, navVars, fmVars>>

\* The PUT fails: the repository refuses it (non-success status), or the
\* request or its answer is lost; the catch block logs and rethrows.
createOrUpdateDoc_failed ==
  /\ running = NoTask
  /\ save.pc \in {"get", "put"}
  /\ save' = [NoSave EXCEPT !.done = save.done]
  /\ notified' = FALSE /\ invoked' = <<>>
  /\ ev' = Ev("saveThrew", NoTask)
  /\ UNCHANGED <<head, remote, cache, stable, lastCommitSha, initialized,
                 timers, initpc, ga, pollpc, pollSha, mounted, hookDocs,
                 hookError, running, unhandled, listeners>>
  /\ UNCHANGED <<docVars, cacheVars, navVars, fmVars>>

\* DocsPage before its first effect
NoPage == [st |-> "none", slug |-> 0]

\* buildTreeFromDocs has not run
NoTree == [built |-> FALSE, nodes |-> <<>>]

\* ---- getDocBySlug and the page that calls it ------------------------------

\* DocsPage.loadDoc after `await service.getDocBySlug(slug)`: a document is
\* shown, null sets notFound.  The setters run for whichever call resolves;
\* page.slug is the slug of the latest loadDoc.
loadDoc_resume(found) ==
  page' = [page EXCEPT !.st = IF found THEN "doc" ELSE "notFound"]

\* getDocBySlug that keeps a fetched document to itself.
CacheAfterFetch_notStored(c, f, doc) == c

\* this.cache.set(slug, doc) after the direct fetch
CacheAfterFetch(c, f, doc) == [c EXCEPT ![f] = doc]

\* DocsPage's effect runs loadDoc for slug f.  The hook returns no
\* `initialized`, so with a service configured the branch taken is the one
\* that calls getDocBySlug: a cached document is returned; on a miss the
\* content request is sent if the service is not initialized, and null is
\* returned if it is.
loadDoc(f) ==
  /\ running = NoTask
  /\ initpc # "new"
  /\ gd[f] = "idle"
  /\ IF cache[f] # 0
     THEN /\ page' = [st |-> "doc", slug |-> f]
          /\ ev' = Ev("docHit", f)
          /\ UNCHANGED gd
     ELSE IF ~initialized
     THEN /\ page' = [st |-> "loading", slug |-> f]
          /\ gd' = [gd EXCEPT ![f] = "fetch"]
          /\ ev' = Ev("docFetch", f)
     ELSE /\ page' = [st |-> "notFound", slug |-> f]
          /\ ev' = Ev("docMiss", f)
          /\ UNCHANGED gd
  /\ notified' = FALSE /\ invoked' = <<>>
  /\ UNCHANGED <<head, remote, cache, stable, lastCommitSha, initialized,
                 timers, initpc, ga, pollpc, pollSha, mounted, hookDocs,
                 hookError, running, unhandled>>
  /\ UNCHANGED <<editVars, cacheVars, navVars, fmVars>>

\* The page loads one document at a time: the reader waits for the page
\* before going to another.
loadDocAlone(f) ==
  /\ \A g \in Files : gd[g] = "idle"
  /\ loadDoc(f)

\* The content request of getDocBySlug succeeds: the document is parsed,
\* stored under the slug and returned.
getDocBySlug_fetched(f) ==
  /\ running = NoTask
  /\ gd[f] = "fetch"
  /\ remote[f] > 0
  /\ gd' = [gd EXCEPT ![f] = "idle"]
  /\ cache' = CacheAfterFetch(cache, f, remote[f])
  /\ stable' = cache'
  /\ loadDoc_resume(TRUE)
  /\ notified' = FALSE /\ invoked' = <<>>
  /\ ev' = Ev("docFetched", f)
  /\ UNCHANGED <<head, remote, lastCommitSha, initialized, timers, initpc, ga,
                 pollpc, pollSha, mounted, hookDocs, hookError, running,
                 unhandled>>
  /\ UNCHANGED <<editVars, cacheVars, navVars, fmVars>>

\* The content request of getDocBySlug fails, with a 404 (no such file) or
\* with a transient error (network, another status): getFileContent throws
\* the same kind of Error for both, the catch block returns null.
getDocBySlug_failed(f, why) ==
  /\ running = NoTask
  /\ gd[f] = "fetch"
  /\ why = "404" => remote[f] = 0
  /\ gd' = [gd EXCEPT ![f] = "idle"]
  /\ loadDoc_resume(FALSE)
  /\ notified' = FALSE /\ invoked' = <<>>
  /\ ev' = Ev(IF why = "404" THEN "docFailed404" ELSE "docFailedTransient", f)
  /\ UNCHANGED <<head, remote, cache, stable, lastCommitSha, initialized,
                 timers, initpc, ga, pollpc, pollSha, mounted, hookDocs,
                 hookError, running, unhandled>>
  /\ UNCHANGED <<editVars, cacheVars, navVars, fmVars>>

\* ---- GitHubDocsCache, the instance with per-document timestamps ----------

CACHE_DURATION == 5         \* 5 * 60 * 1000 ms, in minutes

Times     == 0..MaxTime
Absent    == -1             \* no entry under a slug (undefined)
NoEntries == [f \in Files |-> Absent]

\* A JavaScript value this.cache can hold: an object (slug -> lastFetched of
\* the document stored under it), or what JSON.parse makes of a snapshot that
\* is not an object: null, an array (which can carry named properties) or a
\* scalar (number, string, boolean).
EmptyObject == [kind |-> "object", docs |-> NoEntries]
NullValue   == [kind |-> "null", docs |-> NoEntries]
EmptyArray  == [kind |-> "array", docs |-> NoEntries]
ScalarValue == [kind |-> "scalar", docs |-> NoEntries]

\* An item of localStorage: absent, a text that is not JSON, or the JSON text
\* of a value.
NoItem      == [kind |-> "absent", val |-> EmptyObject]
CorruptItem == [kind |-> "corrupt", val |-> EmptyObject]
JsonItem(v) == [kind |-> "json", val |-> v]

\* JSON.stringify(value): an object is written with its entries; an array is
\* written with its elements only, the named properties are left out.
Stringify(v) ==
  JsonItem(IF v.kind = "object" THEN v ELSE [kind |-> v.kind, docs |-> NoEntries])

\* loadFromStorage(): getItem; if (stored) this.cache = JSON.parse(stored);
\* a text that does not parse throws into the catch and this.cache stays {}.
loadFromStorage(item) ==
  IF item.kind = "json" THEN item.val ELSE EmptyObject

\* saveToStorage(): setItem(CACHE_KEY, JSON.stringify(this.cache)); a write
\* that throws (quota, storage disabled) is logged and the item stays.
saveToStorage(v, item, wok) == IF wok THEN Stringify(v) ELSE item

\* The test with the boundary on the other side.
isExpired_atWindow(lastFetched, t) == t - lastFetched >= CACHE_DURATION

\* isExpired(doc): Date.now() - doc.lastFetched > this.CACHE_DURATION
isExpired(lastFetched, t) == t - lastFetched > CACHE_DURATION

\* this.cache[slug]: undefined on a scalar; on null the read throws
Lookup(v, s) == IF v.kind \in {"object", "array"} THEN v.docs[s] ELSE Absent

IdleGet == [pc |-> "idle", cached |-> Absent]

\* getDoc(slug) up to its await: the cache is read; a fresh entry is
\* returned, otherwise the content request is sent.  With this.cache null the
\* read throws a TypeError outside the try: the promise of the call rejects.
getDoc_call(s) ==
  /\ gc[s].pc = "idle"
  /\ IF mem.kind = "null"
     THEN /\ ev' = Ev("getDocThrew", s)
          /\ UNCHANGED gc
     ELSE IF Lookup(mem, s) # Absent /\ ~isExpired(Lookup(mem, s), now)
     THEN /\ ev' = Ev("getDocHit", s)
          /\ UNCHANGED gc
     ELSE /\ ev' = Ev("getDocFetch", s)
          /\ gc' = [gc EXCEPT ![s] = [pc |-> "fetch", cached |-> Lookup(mem, s)]]
  /\ UNCHANGED <<now, mem, storage, sdocs, stamp>>
  /\ UNCHANGED <<svcVars, docVars, navVars, fmVars>>

\* return cached || null, in the catch block of getDoc
getDoc_catch(s) ==
  /\ ev' = Ev(IF gc[s].cached # Absent THEN "getDocStale" ELSE "getDocNull", s)
  /\ gc' = [gc EXCEPT ![s] = IdleGet]

\* The content request succeeds: the document is parsed, stored under the
\* slug with lastFetched = now, and the snapshot is saved.  Storing on a value
\* that takes no property (a scalar, null) throws into the catch.
getDoc_fetched(s, wok) ==
  /\ gc[s].pc = "fetch"
  /\ IF mem.kind \in {"object", "array"}
     THEN /\ mem' = [mem EXCEPT !.docs[s] = now]
          /\ storage' = saveToStorage(mem', storage, wok)
          /\ ev' = Ev(IF wok THEN "getDocStored" ELSE "getDocStoredUnsaved", s)
          /\ gc' = [gc EXCEPT ![s] = IdleGet]
     ELSE /\ getDoc_catch(s)
          /\ UNCHANGED <<mem, storage>>
  /\ UNCHANGED <<now, sdocs, stamp>>
  /\ UNCHANGED <<svcVars, docVars, navVars, fmVars>>

\* The content request fails (network error, non-success status, a body that
\* cannot be decoded): catch block.
getDoc_failed(s) ==
  /\ gc[s].pc = "fetch"
  /\ getDoc_catch(s)
  /\ UNCHANGED <<now, mem, storage, sdocs, stamp>>
  /\ UNCHANGED <<svcVars, docVars, navVars, fmVars>>

\* clearCache(): this.cache = {}; localStorage.removeItem(CACHE_KEY)
clearCache ==
  /\ mem' = EmptyObject
  /\ storage' = NoItem
  /\ ev' = Ev("clearCache", NoTask)
  /\ UNCHANGED <<now, gc, sdocs, stamp>>
  /\ UNCHANGED <<svcVars, docVars, navVars, fmVars>>

\* A minute passes.
Advance ==
  /\ now < MaxTime
  /\ now' = now + 1
  /\ ev' = Ev("none", NoTask)
  /\ UNCHANGED <<mem, storage, gc, sdocs, stamp>>
  /\ UNCHANGED <<svcVars, docVars, navVars, fmVars>>

\* ---- GitHubDocsCache, the static class with one timestamp ------------------

\* Date.now() - cacheTime <= CACHE_DURATION, the test of isCacheValid; the
\* test of getCachedDocs, Date.now() - cacheTime > CACHE_DURATION, is its
\* negation.
StampValid(ts, t) == t - ts <= CACHE_DURATION

\* GitHubDocsCache.setCachedDocs(docs): the list and the time are written.
GitHubDocsCache_setCachedDocs ==
  /\ sdocs' = 1
  /\ stamp' = now
  /\ ev' = Ev("setCachedDocs", NoTask)
  /\ UNCHANGED <<now, mem, storage, gc>>
  /\ UNCHANGED <<svcVars, docVars, navVars, fmVars>>

\* GitHubDocsCache.clearCache(): both items are removed.
GitHubDocsCache_clearCache ==
  /\ sdocs' = 0
  /\ stamp' = Absent
  /\ ev' = Ev("clearCachedDocs", NoTask)
  /\ UNCHANGED <<now, mem, storage, gc>>
  /\ UNCHANGED <<svcVars, docVars, navVars, fmVars>>

\* GitHubDocsCache.getCachedDocs(): null without a timestamp; with a
\* timestamp past the window it calls clearCache() and returns null;
\* otherwise it returns the stored list (null if there is none).
GitHubDocsCache_getCachedDocs ==
  /\ IF stamp = Absent
     THEN /\ ev' = Ev("cachedNull", NoTask)
          /\ UNCHANGED <<sdocs, stamp>>
     ELSE IF ~StampValid(stamp, now)
     THEN /\ sdocs' = 0
          /\ stamp' = Absent
          /\ ev' = Ev("cachedExpired", NoTask)
     ELSE /\ ev' = Ev(IF sdocs # 0 THEN "cachedDocs" ELSE "cachedNull", NoTask)
          /\ UNCHANGED <<sdocs, stamp>>
  /\ UNCHANGED <<now, mem, storage, gc>>
  /\ UNCHANGED <<svcVars, docVars, navVars, fmVars>>

\* GitHubDocsCache.isCacheValid()
GitHubDocsCache_isCacheValid ==
  /\ ev' = Ev(IF stamp # Absent /\ StampValid(stamp, now)
              THEN "cacheValid" ELSE "cacheInvalid", NoTask)
  /\ UNCHANGED <<now, mem, storage, gc, sdocs, stamp>>
  /\ UNCHANGED <<svcVars, docVars, navVars, fmVars>>

\* ---- buildTreeFromDocs ---------------------------------------------------

\* A slug is the sequence of its path segments: "guides/setup" is
\* <<"guides", "setup">>; slug.split('/')[0] is its first segment.
Slugs ==
  {<<"guides">>, <<"guides", "setup">>, <<"guides", "advanced">>,
   <<"examples", "basic-usage">>, <<"api-reference", "auth">>}

Orders   == 0..MaxOrder
Sections == {"products", "api", "other"}

\* the documents buildTreeFromDocs can be given
NavDocs == [slug : Slugs, order : Orders, title : {"Doc"}]

\* The filter of the section.  The prefixes tested hold no '/', so
\* slug.startsWith(prefix) is decided by the first segment.
InSection(section, slug) ==
  IF section = "products"
  THEN slug[1] \in {"getting-started", "examples", "troubleshooting", "guides"}
  ELSE IF section = "api"
  THEN slug[1] \in {"api-reference", "sdks", "webhooks"}
  ELSE FALSE

\* { title: doc.title, slug: doc.slug, order: doc.order || 0, icon }
NavItem(d) == [slug |-> d.slug, order |-> d.order, title |-> d.title]

\* Object.keys(grouped): the first segments, in the order of first insertion
RECURSIVE GroupKeys(_)
GroupKeys(ds) ==
  IF ds = <<>> THEN <<>>
  ELSE LET k == Head(ds).slug[1]
           IsOther(x) == x # k
       IN <<k>> \o SelectSeq(GroupKeys(Tail(ds)), IsOther)

\* A grouping that ignores the key: every document of the section lands in
\* every group.
RECURSIVE GroupItems_ungrouped(_, _, _)
GroupItems_ungrouped(ds, key, acc) ==
  IF ds = <<>> THEN acc
  ELSE LET d == Head(ds)
       IN GroupItems_ungrouped(Tail(ds), key,
            IF Len(d.slug) = 1 THEN <<NavItem(d)>> \o acc
            ELSE Append(acc, NavItem(d)))

\* grouped[key] after the forEach: a one-segment document is unshifted, a
\* deeper one is pushed
RECURSIVE GroupItems(_, _, _)
GroupItems(ds, key, acc) ==
  IF ds = <<>> THEN acc
  ELSE LET d == Head(ds)
       IN GroupItems(Tail(ds), key,
            IF d.slug[1] # key THEN acc
            ELSE IF Len(d.slug) = 1 THEN <<NavItem(d)>> \o acc
            ELSE Append(acc, NavItem(d)))

\* A sort that puts an element before the elements of equal order already
\* placed: ties come out in reverse.
RECURSIVE InsertByOrder_beforeEqual(_, _)
InsertByOrder_beforeEqual(x, sorted) ==
  IF sorted = <<>> THEN <<x>>
  ELSE IF x.order <= Head(sorted).order THEN <<x>> \o sorted
  ELSE <<Head(sorted)>> \o InsertByOrder_beforeEqual(x, Tail(sorted))

\* One step of .sort((a, b) => a.order - b.order), which is stable: x goes
\* after every element already placed whose order is not greater.
RECURSIVE InsertByOrder(_, _)
InsertByOrder(x, sorted) ==
  IF sorted = <<>> THEN <<x>>
  ELSE IF x.order < Head(sorted).order THEN <<x>> \o sorted
  ELSE <<Head(sorted)>> \o InsertByOrder(x, Tail(sorted))

\* .sort((a, b) => a.order - b.order)
RECURSIVE SortByOrder(_, _)
SortByOrder(xs, acc) ==
  IF xs = <<>> THEN acc
  ELSE SortByOrder(Tail(xs), InsertByOrder(Head(xs), acc))

\* String.prototype.toUpperCase on one character (the letters that start a
\* word of a key)
ToUpperCase(ch) ==
  IF ch = "a" THEN "A" ELSE IF ch = "e" THEN "E" ELSE IF ch = "g" THEN "G"
  ELSE IF ch = "r" THEN "R" ELSE IF ch = "s" THEN "S" ELSE IF ch = "t" THEN "T"
  ELSE IF ch = "w" THEN "W" ELSE ch

\* s.replace(/-/g, ' ')
RECURSIVE ReplaceHyphens(_)
ReplaceHyphens(s) ==
  IF s = "" THEN ""
  ELSE (IF Head(s) = "-" THEN " " ELSE Head(s)) \o ReplaceHyphens(Tail(s))

\* key.charAt(0).toUpperCase() + key.slice(1).replace(/-/g, ' ')
KeyTitle(key) ==
  IF key = "" THEN ""
  ELSE ToUpperCase(Head(key)) \o ReplaceHyphens(Tail(key))

\* The node of one group: the item whose slug is the key with the other
\* items, sorted, as children; without such an item, a parent made from the
\* key and the first child.
GroupNode(key, items) ==
  LET IsKey(i)  == i.slug = <<key>>
      NotKey(i) == i.slug # <<key>>
      parents   == SelectSeq(items, IsKey)
      children  == SortByOrder(SelectSeq(items, NotKey), <<>>)
  IN IF parents # <<>>
     THEN <<[slug |-> Head(parents).slug, order |-> Head(parents).order,
             title |-> Head(parents).title, children |-> children]>>
     ELSE IF children # <<>>
     THEN <<[slug |-> <<key>>, order |-> children[1].order,
             title |-> KeyTitle(key), children |-> children]>>
     ELSE <<>>

\* Object.entries(grouped).forEach(...): the nodes in the order of the keys
RECURSIVE GroupNodes(_, _)
GroupNodes(keys, ds) ==
  IF keys = <<>> THEN <<>>
  ELSE GroupNode(Head(keys), GroupItems(ds, Head(keys), <<>>))
         \o GroupNodes(Tail(keys), ds)

\* buildTreeFromDocs(docs, section)
buildTreeFromDocs(docs, section) ==
  LET Keep(d)     == InSection(section, d.slug)
      sectionDocs == SelectSeq(docs, Keep)
  IN IF sectionDocs = <<>> THEN <<>>
     ELSE SortByOrder(GroupNodes(GroupKeys(sectionDocs), sectionDocs), <<>>)

\* Sidebar's effect: setDocTree(buildTreeFromDocs(docs, activeSection))
BuildTree ==
  /\ ~navTree.built
  /\ navTree' = [built |-> TRUE, nodes |-> buildTreeFromDocs(navDocs, navSection)]
  /\ ev' = Ev("buildTree", NoTask)
  /\ UNCHANGED <<navDocs, navSection>>
  /\ UNCHANGED <<svcVars, docVars, cacheVars, fmVars>>

\* ---- strings --------------------------------------------------------------

\* A text is a string; Head, Tail, Len, SubSeq and \o act on its characters.
CharAt(s, i) == SubSeq(s, i, i)

\* the characters \s matches and trim() removes (those the texts hold)
IsSpace(ch) == ch \in {" ", "\n", "\r", "\t"}

\* String.prototype.trim
RECURSIVE TrimStart(_)
TrimStart(s) ==
  IF s = "" THEN ""
  ELSE IF IsSpace(Head(s)) THEN TrimStart(Tail(s)) ELSE s

RECURSIVE TrimEnd(_)
TrimEnd(s) ==
  IF s = "" THEN ""
  ELSE IF IsSpace(CharAt(s, Len(s))) THEN TrimEnd(SubSeq(s, 1, Len(s) - 1))
  ELSE s

Trim(s) == TrimEnd(TrimStart(s))

StartsWith(s, p) == Len(s) >= Len(p) /\ SubSeq(s, 1, Len(p)) = p
EndsWith(s, p)   == Len(s) >= Len(p) /\ SubSeq(s, Len(s) - Len(p) + 1, Len(s)) = p

\* s.indexOf(ch), counted from 1; 0 when ch does not occur (JavaScript: -1)
IndexOf(s, ch) ==
  IF \E i \in 1..Len(s) : CharAt(s, i) = ch
  THEN CHOOSE i \in 1..Len(s) :
         /\ CharAt(s, i) = ch
         /\ \A j \in 1..(i - 1) : CharAt(s, j) # ch
  ELSE 0

\* s.split(ch): the pieces between the occurrences of ch
RECURSIVE Split(_, _)
Split(s, ch) ==
  LET i == IndexOf(s, ch)
  IN IF i = 0 THEN <<s>>
     ELSE <<SubSeq(s, 1, i - 1)>> \o Split(SubSeq(s, i + 1, Len(s)), ch)

\* lines.join('\n')
RECURSIVE Join(_)
Join(lines) ==
  IF lines = <<>> THEN ""
  ELSE IF Len(lines) = 1 THEN lines[1]
  ELSE lines[1] \o "\n" \o Join(Tail(lines))

\* a trailing '\r' of a piece taken off: with Split(s, "\n"), s.split(/\r?\n/)
DropCR(s) == IF EndsWith(s, "\r") THEN SubSeq(s, 1, Len(s) - 1) ELSE s

IsQuote(ch) == ch \in {"\"", "'"}

\* A value whose quotes are kept.
StripQuotes_kept(v) == v

\* v.replace(/^["']|["']$/g, ''): one quote off the front, then one off the end
StripQuotes(v) ==
  LET a == IF v # "" /\ IsQuote(Head(v)) THEN Tail(v) ELSE v
  IN IF a # "" /\ IsQuote(CharAt(a, Len(a))) THEN SubSeq(a, 1, Len(a) - 1) ELSE a

Digits == <<"0", "1", "2", "3", "4", "5", "6", "7", "8", "9">>
IsDigit(ch) == \E d \in 1..10 : Digits[d] = ch
DigitOf(ch) == (CHOOSE d \in 1..10 : Digits[d] = ch) - 1

\* the value of the digits at the front of s, after acc; found: a digit was read
RECURSIVE ReadDigits(_, _, _)
ReadDigits(s, acc, found) ==
  IF s # "" /\ IsDigit(Head(s))
  THEN ReadDigits(Tail(s), 10 * acc + DigitOf(Head(s)), TRUE)
  ELSE [nan |-> ~found, n |-> acc]

\* parseInt(s): leading white space, a sign, then digits; NaN without digits
ParseInt(s) ==
  LET t == TrimStart(s)
  IN IF t # "" /\ Head(t) = "-"
     THEN LET r == ReadDigits(Tail(t), 0, FALSE) IN [nan |-> r.nan, n |-> 0 - r.n]
     ELSE IF t # "" /\ Head(t) = "+" THEN ReadDigits(Tail(t), 0, FALSE)
     ELSE ReadDigits(t, 0, FALSE)

\* parseInt(value) || 0
ParseIntOrZero(s) == IF ParseInt(s).nan THEN 0 ELSE ParseInt(s).n

\* `${n}` for an integer n
RECURSIVE NaturalToString(_)
NaturalToString(n) ==
  IF n < 10 THEN Digits[n + 1]
  ELSE NaturalToString(n \div 10) \o Digits[(n % 10) + 1]

NumberToString(n) == IF n < 0 THEN "-" \o NaturalToString(0 - n) ELSE NaturalToString(n)

\* ---- frontmatter ----------------------------------------------------------

\* The values a metadata record holds: a string, a number or an array of
\* strings.
StrVal(s) == [kind |-> "string", str |-> s,  num |-> 0, arr |-> <<>>]
NumVal(n) == [kind |-> "number", str |-> "", num |-> n, arr |-> <<>>]
ArrVal(a) == [kind |-> "array",  str |-> "", num |-> 0, arr |-> a]

\* {}: a metadata record is a function from its keys to their values
NoMetadata == [k \in {} |-> StrVal("")]

\* metadata[key] = value
SetKey(m, key, value) == (key :> value) @@ m

\* arrayContent.split(',').map(item => item.trim().replace(/^["']|["']$/g, ''))
InlineItems(arrayContent) ==
  LET parts == Split(arrayContent, ",")
  IN [i \in 1..Len(parts) |-> StripQuotes(Trim(parts[i]))]

\* GitHubDocsService.parseFrontmatter, the loop over the lines of the block:
\* st is [metadata, currentKey, inArray, arrayItems]
RECURSIVE ParseLines(_, _)
ParseLines(lines, st) ==
  IF lines = <<>>
  THEN IF st.inArray /\ st.arrayItems # <<>>
       THEN SetKey(st.metadata, st.currentKey, ArrVal(st.arrayItems))
       ELSE st.metadata
  ELSE
    LET trimmedLine == Trim(Head(lines))
        rest        == Tail(lines)
    IN IF trimmedLine = "" THEN ParseLines(rest, st)
       ELSE IF st.inArray /\ StartsWith(trimmedLine, "- ")
       THEN ParseLines(rest,
              [st EXCEPT !.arrayItems =
                 Append(@, StripQuotes(Trim(SubSeq(trimmedLine, 3, Len(trimmedLine)))))])
       ELSE
         LET st1 == IF st.inArray
                    THEN [st EXCEPT
                            !.metadata = SetKey(@, st.currentKey, ArrVal(st.arrayItems)),
                            !.inArray = FALSE, !.arrayItems = <<>>]
                    ELSE st
             colon == IndexOf(trimmedLine, ":")
             key   == Trim(SubSeq(trimmedLine, 1, colon - 1))
             value == Trim(SubSeq(trimmedLine, colon + 1, Len(trimmedLine)))
         IN IF colon <= 1 THEN ParseLines(rest, st1)
            ELSE IF value = ""
            THEN ParseLines(rest, [st1 EXCEPT !.currentKey = key,
                                              !.inArray = TRUE, !.arrayItems = <<>>])
            ELSE IF StartsWith(value, "[") /\ EndsWith(value, "]")
            THEN LET arrayContent == SubSeq(value, 2, Len(value) - 1)
                 IN ParseLines(rest,
                      [st1 EXCEPT !.metadata =
                         SetKey(@, key,
                           IF Trim(arrayContent) # ""
                           THEN ArrVal(InlineItems(arrayContent))
                           ELSE ArrVal(<<>>))])
            ELSE ParseLines(rest,
                   [st1 EXCEPT !.metadata =
                      SetKey(@, key,
                        IF key = "order" THEN NumVal(ParseIntOrZero(StripQuotes(value)))
                        ELSE StrVal(StripQuotes(value)))])

\* the white space that follows position i of the text
RECURSIVE SpaceRun(_, _)
SpaceRun(text, i) ==
  IF i < Len(text) /\ IsSpace(CharAt(text, i + 1))
  THEN CharAt(text, i + 1) \o SpaceRun(text, i + 1)
  ELSE ""

\* `\n---\s*\n` matches at position q of the text
ClosingAt(text, q) ==
  /\ q + 3 <= Len(text)
  /\ SubSeq(text, q, q + 3) = "\n---"
  /\ IndexOf(SpaceRun(text, q + 3), "\n") # 0

\* content.match(/^---\s*\n([\s\S]*?)\n---\s*\n([\s\S]*)$/): `\s*` takes
\* the longest white space after the opening `---` that leaves a line break
\* and a later closing; the lazy group ends at the first closing after it.
\* found: the text matches; from, to: the block is text[from..to]; after:
\* the position of the last character of the closing `---`.
MatchFrontmatter(text) ==
  LET starts == {g \in 4..Len(text) :
                   /\ CharAt(text, g) = "\n"
                   /\ \A j \in 4..g : IsSpace(CharAt(text, j))
                   /\ \E q \in (g + 1)..Len(text) : ClosingAt(text, q)}
      g      == CHOOSE s1 \in starts : \A s2 \in starts : s2 <= s1
      q      == CHOOSE x \in (g + 1)..Len(text) :
                  /\ ClosingAt(text, x)
                  /\ \A y \in (g + 1)..(x - 1) : ~ClosingAt(text, y)
  IN IF StartsWith(text, "---") /\ starts # {}
     THEN [found |-> TRUE, from |-> g + 1, to |-> q - 1, after |-> q + 3]
     ELSE [found |-> FALSE, from |-> 0, to |-> 0, after |-> 0]

\* { title: 'Untitled', slug: '' }
ServiceDefaultMetadata ==
  SetKey(SetKey(NoMetadata, "title", StrVal("Untitled")), "slug", StrVal(""))

\* GitHubDocsService.parseFrontmatter(content)
parseFrontmatter(content) ==
  LET match == MatchFrontmatter(content)
      block == SubSeq(content, match.from, match.to)
      split == Split(block, "\n")
      lines == [i \in 1..Len(split) |-> DropCR(split[i])]
  IN IF ~match.found
     THEN [metadata |-> ServiceDefaultMetadata, content |-> Trim(content)]
     ELSE [metadata |-> ParseLines(lines,
                          [metadata |-> NoMetadata, currentKey |-> "",
                           inArray |-> FALSE, arrayItems |-> <<>>]),
           content  |-> Trim(SubSeq(content, match.after + 1, Len(content)))]

\* tags.map(tag => `"${tag}"`).join(', ')
RECURSIVE QuotedList(_)
QuotedList(tags) ==
  IF tags = <<>> THEN ""
  ELSE IF Len(tags) = 1 THEN "\"" \o tags[1] \o "\""
  ELSE "\"" \o tags[1] \o "\", " \o QuotedList(Tail(tags))

Has(m, key) == key \in DOMAIN m

\* GitHubDocsService.createFrontmatter(metadata)
createFrontmatter(m) ==
  LET title == <<"title: \"" \o m["title"].str \o "\"">>
      description ==
        IF Has(m, "description") /\ m["description"].str # ""
        THEN <<"description: \"" \o m["description"].str \o "\"">> ELSE <<>>
      order ==
        IF Has(m, "order")
        THEN <<"order: " \o NumberToString(m["order"].num)>> ELSE <<>>
      icon ==
        IF Has(m, "icon") /\ m["icon"].str # ""
        THEN <<"icon: \"" \o m["icon"].str \o "\"">> ELSE <<>>
      tags ==
        IF Has(m, "tags") /\ m["tags"].arr # <<>>
        THEN <<"tags: [" \o QuotedList(m["tags"].arr) \o "]">> ELSE <<>>
  IN Join(<<"---">> \o title \o description \o order \o icon \o tags \o <<"---">>)
       \o "\n\n"

\* content.replace(/\r\n/g, '\n').replace(/\r/g, '\n')
RECURSIVE NormalizeLineEndings(_)
NormalizeLineEndings(s) ==
  IF s = "" THEN ""
  ELSE IF StartsWith(s, "\r\n") THEN "\n" \o NormalizeLineEndings(SubSeq(s, 3, Len(s)))
  ELSE IF Head(s) = "\r" THEN "\n" \o NormalizeLineEndings(Tail(s))
  ELSE Head(s) \o NormalizeLineEndings(Tail(s))

\* { title: 'Untitled', order: 0 }
CacheDefaultMetadata ==
  SetKey(SetKey(NoMetadata, "title", StrVal("Untitled")), "order", NumVal(0))

\* GitHubDocsCache.parseFrontmatter, the loop over frontmatterLines
RECURSIVE CacheParseLines(_, _)
CacheParseLines(lines, metadata) ==
  IF lines = <<>> THEN metadata
  ELSE
    LET trimmedLine == Trim(Head(lines))
        colon == IndexOf(trimmedLine, ":")
        key   == Trim(SubSeq(trimmedLine, 1, colon - 1))
        value == StripQuotes(Trim(SubSeq(trimmedLine, colon + 1, Len(trimmedLine))))
    IN IF trimmedLine = "" \/ colon <= 1 THEN CacheParseLines(Tail(lines), metadata)
       ELSE CacheParseLines(Tail(lines),
              SetKey(metadata, key,
                IF key = "order" THEN NumVal(ParseIntOrZero(value))
                ELSE IF key = "tags"
                THEN IF StartsWith(value, "[") /\ EndsWith(value, "]")
                     THEN ArrVal(InlineItems(SubSeq(value, 2, Len(value) - 1)))
                     ELSE ArrVal(<<value>>)
                ELSE StrVal(value)))

\* GitHubDocsCache.parseFrontmatter(content)
GitHubDocsCache_parseFrontmatter(content) ==
  LET normalizedContent == NormalizeLineEndings(content)
      lines   == Split(normalizedContent, "\n")
      ends    == {i \in 2..Len(lines) : Trim(lines[i]) = "---"}
      endLine == CHOOSE i \in ends : \A j \in ends : i <= j
      fallback == [metadata |-> CacheDefaultMetadata,
                   content  |-> Trim(normalizedContent)]
  IN IF ~StartsWith(normalizedContent, "---\n") THEN fallback
     ELSE IF ends = {} THEN fallback
     ELSE [metadata |-> CacheParseLines(SubSeq(lines, 2, endLine - 1),
                                        SetKey(NoMetadata, "order", NumVal(0))),
           content  |-> Trim(Join(SubSeq(lines, endLine + 1, Len(lines))))]

\* ---- the parsers and the serializer as steps --------------------------------

NoOut == [by |-> "none", metadata |-> NoMetadata, content |-> ""]

\* A document is saved and read back: createOrUpdateDoc writes
\* createFrontmatter(metadata) + content, and the next read parses that text.
RoundTrip ==
  /\ fmOut = NoOut
  /\ fmMeta # NoMetadata
  /\ fmText' = createFrontmatter(fmMeta) \o fmBody
  /\ fmOut' = [by |-> "service"] @@ parseFrontmatter(fmText')
  /\ ev' = Ev("roundTrip", NoTask)
  /\ UNCHANGED <<fmMeta, fmBody>>
  /\ UNCHANGED <<svcVars, docVars, cacheVars, navVars>>

\* GitHubDocsService.parseFrontmatter on a fetched text
ParseByService ==
  /\ fmOut = NoOut
  /\ fmMeta = NoMetadata
  /\ fmOut' = [by |-> "service"] @@ parseFrontmatter(fmText)
  /\ ev' = Ev("parseByService", NoTask)
  /\ UNCHANGED <<fmMeta, fmBody, fmText>>
  /\ UNCHANGED <<svcVars, docVars, cacheVars, navVars>>

\* GitHubDocsCache.parseFrontmatter on a fetched text
ParseByCache ==
  /\ fmOut = NoOut
  /\ fmMeta = NoMetadata
  /\ fmOut' = [by |-> "cache"] @@ GitHubDocsCache_parseFrontmatter(fmText)
  /\ ev' = Ev("parseByCache", NoTask)
  /\ UNCHANGED <<fmMeta, fmBody, fmText>>
  /\ UNCHANGED <<svcVars, docVars, cacheVars, navVars>>

\* ---- specification -------------------------------------------------------

\* the service before new GitHubDocsService(config), no component mounted
InitService ==
  /\ head = 1
  /\ remote = [f \in Files |-> 1]
  /\ cache = NoDocs
  /\ stable = NoDocs
  /\ lastCommitSha = Null
  /\ initialized = FALSE
  /\ timers = 0
  /\ initpc = "new"
  /\ ga = [t \in Tasks |-> IdleCall]
  /\ pollpc = [s \in Polls |-> "idle"]
  /\ pollSha = [s \in Polls |-> Null]
  /\ mounted = FALSE
  /\ save = NoSave
  /\ listeners = <<>>
  /\ invoked = <<>>
  /\ hookDocs = NoDocs
  /\ hookError = FALSE
  /\ running = NoTask
  /\ unhandled = FALSE
  /\ notified = FALSE
  /\ ev = Ev("none", NoTask)

\* no page shown, no getDocBySlug call in flight
InitDocs ==
  /\ gd = [f \in Files |-> "idle"]
  /\ page = NoPage

\* the caches over an empty localStorage
InitCaches ==
  /\ now = 0
  /\ storage = NoItem
  /\ mem = loadFromStorage(storage)
  /\ gc = [f \in Files |-> IdleGet]
  /\ sdocs = 0
  /\ stamp = Absent

\* no navigation tree built
InitNav ==
  /\ navDocs = <<>>
  /\ navSection = "products"
  /\ navTree = NoTree

\* no document saved, no text parsed
InitFm ==
  /\ fmMeta = NoMetadata
  /\ fmBody = ""
  /\ fmText = ""
  /\ fmOut = NoOut

Init == InitService /\ InitDocs /\ InitCaches /\ InitNav /\ InitFm

Next ==
  \/ PushOther
  \/ PushDoc
  \/ Construct
  \/ \E t \in Tasks : getFileTree_ok(t)
  \/ \E t \in Tasks : getFileTree_fail(t)
  \/ \E t \in Tasks, f \in Files : getFileContent_ok(t, f)
  \/ \E t \in Tasks, f \in Files : getFileContent_fail(t, f)
  \/ \E t \in Tasks : getAllDocs_clear(t)
  \/ \E t \in Tasks : getAllDocs_set(t)
  \/ \E t \in Tasks : getAllDocs_return(t)
  \/ Tick
  \/ \E t \in Polls : checkForUpdates_head(t)
  \/ \E t \in Polls : checkForUpdates_notOk(t)
  \/ \E t \in Polls : checkForUpdates_threw(t)
  \/ getCachedDocs

\* The service with its polling loop, the repository and a reader of the
\* cache, in every interleaving.
Spec == Init /\ [][Next]_vars

\* The polling loop over a repository whose documents stay as they are:
\* commits move the head only and file requests succeed; the listing and the
\* branch request can fail, cycles overlap freely.
NextPoll ==
  \/ PushOther
  \/ Construct
  \/ \E t \in Tasks : getFileTree_ok(t)
  \/ \E t \in Tasks : getFileTree_fail(t)
  \/ \E t \in Tasks, f \in Files : getFileContent_ok(t, f)
  \/ \E t \in Tasks : getAllDocs_clear(t)
  \/ \E t \in Tasks : getAllDocs_set(t)
  \/ \E t \in Tasks : getAllDocs_return(t)
  \/ Tick
  \/ \E t \in Polls : checkForUpdates_head(t)
  \/ \E t \in Polls : checkForUpdates_notOk(t)
  \/ \E t \in Polls : checkForUpdates_threw(t)

SpecPoll == Init /\ [][NextPoll]_vars

\* The interval fires with no cycle in flight: each cycle ends within the 30
\* seconds before the next tick.
TickSerial ==
  /\ \A s \in Polls : pollpc[s] = "idle"
  /\ Tick

\* The service, the repository in full and a reader of the cache, with poll
\* cycles that do not overlap.
NextSerial ==
  \/ PushOther
  \/ PushDoc
  \/ Construct
  \/ \E t \in Tasks : getFileTree_ok(t)
  \/ \E t \in Tasks : getFileTree_fail(t)
  \/ \E t \in Tasks, f \in Files : getFileContent_ok(t, f)
  \/ \E t \in Tasks, f \in Files : getFileContent_fail(t, f)
  \/ \E t \in Tasks : getAllDocs_clear(t)
  \/ \E t \in Tasks : getAllDocs_set(t)
  \/ \E t \in Tasks : getAllDocs_return(t)
  \/ TickSerial
  \/ \E t \in Polls : checkForUpdates_head(t)
  \/ \E t \in Polls : checkForUpdates_notOk(t)
  \/ \E t \in Polls : checkForUpdates_threw(t)
  \/ getCachedDocs

SpecSerial == Init /\ [][NextSerial]_vars

\* ---- the document cache on its own ---------------------------------------

\* What localStorage can hold under CACHE_KEY when the module is loaded:
\* nothing, a text that is not JSON, the JSON text of null, of an array (the
\* list that setCachedDocs of the timestamped cache writes under the same
\* key) or of a scalar, or a snapshot saved by an earlier session at minute 0.
StoredItems ==
  {NoItem, CorruptItem, JsonItem(NullValue), JsonItem(EmptyArray),
   JsonItem(ScalarValue)}
    \cup {JsonItem([kind |-> "object", docs |-> d]) : d \in [Files -> {Absent, 0}]}

\* export const githubDocsCache = new GitHubDocsCache(): the constructor has
\* hydrated this.cache from localStorage.
InitCache ==
  /\ InitService /\ InitDocs /\ InitNav /\ InitFm
  /\ now = 0
  /\ storage \in StoredItems
  /\ mem = loadFromStorage(storage)
  /\ gc = [f \in Files |-> IdleGet]
  /\ sdocs = 0
  /\ stamp = Absent

NextCache ==
  \/ \E s \in Files : getDoc_call(s)
  \/ \E s \in Files, wok \in BOOLEAN : getDoc_fetched(s, wok)
  \/ \E s \in Files : getDoc_failed(s)
  \/ clearCache
  \/ Advance

SpecCache == InitCache /\ [][NextCache]_vars

\* ---- the service with a page that loads single documents ----------------

NextDoc ==
  \/ PushDoc
  \/ Construct
  \/ \E t \in Tasks : getFileTree_ok(t)
  \/ \E t \in Tasks : getFileTree_fail(t)
  \/ \E t \in Tasks, f \in Files : getFileContent_ok(t, f)
  \/ \E t \in Tasks, f \in Files : getFileContent_fail(t, f)
  \/ \E t \in Tasks : getAllDocs_clear(t)
  \/ \E t \in Tasks : getAllDocs_set(t)
  \/ \E t \in Tasks : getAllDocs_return(t)
  \/ \E f \in Files : loadDocAlone(f)
  \/ \E f \in Files : getDocBySlug_fetched(f)
  \/ \E f \in Files, why \in {"404", "transient"} : getDocBySlug_failed(f, why)

\* The service from its construction through its initial load, the
\* repository and DocsPage loading documents by slug; the polling loop that
\* starts afterwards is left out.
SpecDoc == Init /\ [][NextDoc]_vars

\* ---- the timestamped cache on its own ------------------------------------

NextStamp ==
  \/ GitHubDocsCache_setCachedDocs
  \/ GitHubDocsCache_clearCache
  \/ GitHubDocsCache_getCachedDocs
  \/ GitHubDocsCache_isCacheValid
  \/ Advance

\* The static cache over a localStorage that starts empty, and the clock.
SpecStamp == Init /\ [][NextStamp]_vars

\* ---- both caches under one clock -----------------------------------------

NextFresh ==
  \/ \E s \in Files : getDoc_call(s)
  \/ \E s \in Files : getDoc_fetched(s, TRUE)
  \/ GitHubDocsCache_setCachedDocs
  \/ GitHubDocsCache_getCachedDocs
  \/ GitHubDocsCache_isCacheValid
  \/ Advance

\* The instance cache and the static cache, each over its own items of
\* localStorage, written and read as the minutes pass; requests and storage
\* writes succeed and nothing is cleared by the application.
SpecFresh == Init /\ [][NextFresh]_vars

\* ---- the service with the document list hook ----------------------------

\* the component mounts while no getAllDocs call is in flight
MountQuiet ==
  /\ \A t \in Tasks : ga[t].pc = "idle"
  /\ Mount

NextHook ==
  \/ PushDoc
  \/ Construct
  \/ \E t \in Tasks : getFileTree_ok(t)
  \/ \E t \in Tasks, f \in Files : getFileContent_ok(t, f)
  \/ \E t \in Tasks : getAllDocs_clear(t)
  \/ \E t \in Tasks : getAllDocs_set(t)
  \/ \E t \in Tasks : getAllDocs_return(t)
  \/ TickSerial
  \/ \E t \in Polls : checkForUpdates_head(t)
  \/ MountQuiet

\* The service, the repository and a component that uses useGitHubDocsList
\* that stays mounted, with requests that succeed and poll
\* cycles that do not overlap each other; a cycle can overlap the getAllDocs
\* of the hook.
SpecHook == Init /\ [][NextHook]_vars

\* ---- the initial load and the hook's load together -------------------------

NextOverlap ==
  \/ PushDoc
  \/ Construct
  \/ \E t \in Tasks : getFileTree_ok(t)
  \/ \E t \in Tasks, f \in Files : getFileContent_ok(t, f)
  \/ \E t \in Tasks : getAllDocs_clear(t)
  \/ \E t \in Tasks : getAllDocs_set(t)
  \/ \E t \in Tasks : getAllDocs_return(t)
  \/ Mount

\* The service and a component that mounts at any moment after the service
\* is constructed, so that the getAllDocs of initializeService and the one of
\* fetchDocs can be in flight together; requests succeed, commits land in
\* between, and the poll cycles started after the initial load stay at their
\* branch request.
SpecOverlap == Init /\ [][NextOverlap]_vars

\* ---- the service with the editor --------------------------------------------

NextEdit ==
  \/ Construct
  \/ \E t \in Tasks : getFileTree_ok(t)
  \/ \E t \in Tasks, f \in Files : getFileContent_ok(t, f)
  \/ \E t \in Tasks : getAllDocs_clear(t)
  \/ \E t \in Tasks : getAllDocs_set(t)
  \/ \E t \in Tasks : getAllDocs_return(t)
  \/ MountQuiet
  \/ \E f \in Files : createOrUpdateDoc_call(f)
  \/ createOrUpdateDoc_put
  \/ createOrUpdateDoc_saved
  \/ createOrUpdateDoc_failed

\* The service, a component that uses useGitHubDocsList (mounted while no
\* getAllDocs call is in flight) and the editor that saves documents, one
\* save at a time; a save can overlap the getAllDocs of the initial load or
\* of the hook; the requests of getAllDocs succeed, a save can fail, and the
\* commits on the branch are those of the editor.
SpecEdit == Init /\ [][NextEdit]_vars

\* ---- the service with its subscribers ---------------------------------------

NextRegistry ==
  \/ Construct
  \/ \E t \in Tasks : getFileTree_ok(t)
  \/ \E t \in Tasks, f \in Files : getFileContent_ok(t, f)
  \/ \E t \in Tasks : getAllDocs_clear(t)
  \/ \E t \in Tasks : getAllDocs_set(t)
  \/ \E t \in Tasks : getAllDocs_return(t)
  \/ MountQuiet
  \/ Unmount
  \/ addListener(OtherCallback)
  \/ removeListener(OtherCallback)
  \/ \E f \in Files : createOrUpdateDoc_call(f)
  \/ createOrUpdateDoc_put
  \/ createOrUpdateDoc_saved

\* The service, a component that mounts and unmounts, another subscriber that
\* adds and removes its callback, and saves of the editor, each of which
\* notifies the listeners.
SpecRegistry == Init /\ [][NextRegistry]_vars

\* ---- the navigation tree builder on its own ------------------------------

\* the lists of at most MaxDocs documents with distinct slugs
RECURSIVE DocLists(_)
DocLists(n) ==
  IF n = 0 THEN {<<>>}
  ELSE LET shorter == DocLists(n - 1)
       IN shorter \cup
            {Append(l, d) : l \in {x \in shorter : Len(x) = n - 1},
                            d \in NavDocs}

DistinctSlugs(l) ==
  \A i, j \in 1..Len(l) : l[i].slug = l[j].slug => i = j

\* Any list of documents with distinct slugs and any section, not built yet.
InitNavInputs ==
  /\ InitService /\ InitDocs /\ InitCaches /\ InitFm
  /\ navDocs \in {l \in DocLists(MaxDocs) : DistinctSlugs(l)}
  /\ navSection \in Sections
  /\ navTree = NoTree

SpecNav == InitNavInputs /\ [][BuildTree]_vars

\* ---- the frontmatter serializer and parser on their own ---------------------

Titles       == {"Guide", "a: b", "say \"hi\""}
Descriptions == {"", "A guide"}
Icons        == {"x"}
TagValues    == {"a", "b,c"}
FmOrders     == 0..MaxOrder \cup {10 * MaxOrder}
Bodies       == {"", "# Body", "# Body\n", "\n\n# Body", "a\n---\nb"}

\* the lists of at most n tags
RECURSIVE TagLists(_)
TagLists(n) ==
  IF n = 0 THEN {<<>>}
  ELSE TagLists(n - 1) \cup
         {Append(l, t) : l \in {x \in TagLists(n - 1) : Len(x) = n - 1},
                         t \in TagValues}

\* a record with or without the key
Optional(key, values) == {NoMetadata} \cup {SetKey(NoMetadata, key, v) : v \in values}

\* the metadata records a document can be saved with
Metadatas ==
  {t @@ d @@ o @@ i @@ g :
     t \in {SetKey(NoMetadata, "title", StrVal(x)) : x \in Titles},
     d \in Optional("description", {StrVal(x) : x \in Descriptions}),
     o \in Optional("order", {NumVal(x) : x \in FmOrders}),
     i \in Optional("icon", {StrVal(x) : x \in Icons}),
     g \in Optional("tags", {ArrVal(x) : x \in TagLists(MaxTags)})}

InitRoundTrip ==
  /\ InitService /\ InitDocs /\ InitCaches /\ InitNav
  /\ fmMeta \in Metadatas
  /\ fmBody \in Bodies
  /\ fmText = ""
  /\ fmOut = NoOut

SpecRoundTrip == InitRoundTrip /\ [][RoundTrip]_vars

\* the lines a fetched text is made of
TextLines == {"---", "title: \"Guide\"", "order: 2", "# Body", ""}

\* the sequences of at most n lines
RECURSIVE LineLists(_)
LineLists(n) ==
  IF n = 0 THEN {<<>>}
  ELSE LineLists(n - 1) \cup
         {Append(l, t) : l \in {x \in LineLists(n - 1) : Len(x) = n - 1},
                         t \in TextLines}

\* the texts a parser can be given
Texts == {Join(l) : l \in LineLists(MaxLines)}

InitParse ==
  /\ InitService /\ InitDocs /\ InitCaches /\ InitNav
  /\ fmMeta = NoMetadata
  /\ fmBody = ""
  /\ fmText \in Texts
  /\ fmOut = NoOut

NextParse == ParseByService \/ ParseByCache

SpecParse == InitParse /\ [][NextParse]_vars

\* ---- C1 ------------------------------------------------------------------

\* C1: a poll cycle that fetched the branch head calls getAllDocs if and only
\* if lastCommitSha holds a head (a previous one was observed) and the fetched
\* head differs from it; with no head observed yet, or the same head as
\* before, no refresh is started, and a cycle starts a refresh at no other
\* point.
C1_RefreshIffHeadChanged ==
  [][\A t \in Polls :
       /\ (pollpc[t] = "head" /\ ev'.task = t
              /\ ev'.op \in {"pollRefresh", "pollSkip"})
            => ((ga'[t].pc = "tree" /\ pollpc'[t] = "refresh")
                  <=> (lastCommitSha # Null /\ lastCommitSha # head))
       /\ (ga[t].pc = "idle" /\ ga'[t].pc # "idle")
            => (pollpc[t] = "head" /\ lastCommitSha # Null
                  /\ lastCommitSha # head)]_vars

\* A cycle has just started a refresh: it saw a head other than the one on
\* record.
C1_Witness ==
  /\ ev.op = "pollRefresh"
  /\ lastCommitSha # Null
  /\ pollSha[ev.task] # lastCommitSha
  /\ ga[ev.task].pc = "tree"

\* ---- C2 ------------------------------------------------------------------

\* the step ends cycle t without a refresh, after a successful head fetch
CycleEndsNoRefresh(t) ==
  pollpc[t] = "head" /\ ev'.task = t /\ ev'.op = "pollSkip"

\* the step ends cycle t with its refresh done (ok) or failed
CycleEndsAfterRefresh(t, op) ==
  pollpc[t] = "refresh" /\ pollpc'[t] = "idle" /\ ev'.task = t /\ ev'.op = op

\* C2 as stated: every cycle that fetched the head leaves lastCommitSha equal
\* to the fetched head when it ends, also when its refresh threw.
C2_AsStated ==
  [][\A t \in Polls :
       /\ CycleEndsNoRefresh(t) => lastCommitSha' = head
       /\ (pollpc[t] = "refresh" /\ pollpc'[t] = "idle")
            => lastCommitSha' = pollSha[t]]_vars

\* C2 (amended): a cycle that fetched the head and ends without an exception
\* (no refresh needed, or the refresh it started succeeded) leaves
\* lastCommitSha equal to the fetched head; a cycle whose refresh threw leaves
\* lastCommitSha as it was.
C2_HeadRecordedUnlessRefreshThrew ==
  [][\A t \in Polls :
       /\ CycleEndsNoRefresh(t) => lastCommitSha' = head
       /\ CycleEndsAfterRefresh(t, "refreshOk") => lastCommitSha' = pollSha[t]
       /\ CycleEndsAfterRefresh(t, "refreshThrew")
            => lastCommitSha' = lastCommitSha]_vars

\* A cycle that refreshed has ended and the head it fetched is on record.
C2_Witness ==
  /\ ev.op = "refreshOk"
  /\ ev.task \in Polls
  /\ lastCommitSha = head
  /\ head > 1

\* ---- C3 ------------------------------------------------------------------

\* the step ends cycle t in failure
CycleFails(t) ==
  /\ ev'.task = t
  /\ \/ pollpc[t] = "head" /\ ev'.op \in {"pollNotOk", "pollThrew"}
     \/ pollpc[t] = "refresh" /\ ev'.op = "refreshThrew"

\* C3: a cycle that fails (branch request fails or is refused, or the refresh
\* throws) produces no unhandled error and leaves the interval timer running
\* with the cycle's slot free: the next tick can start a cycle.
C3_FailedCycleIsSwallowed ==
  [][\A t \in Polls :
       CycleFails(t) => /\ ~unhandled'
                        /\ timers' = timers
                        /\ pollpc'[t] = "idle"
                        /\ TickEnabled']_vars

\* A cycle has just failed in its refresh.
C3_Witness ==
  /\ ev.op = "refreshThrew"
  /\ ev.task \in Polls
  /\ TickEnabled

\* ---- C4 ------------------------------------------------------------------

\* C4: startPolling runs exactly once per engine: never more than one interval
\* timer exists, and once initializeService is over, after a successful or a
\* failed initial load, there is exactly one.
C4_PollingStartedOnce ==
  /\ timers <= 1
  /\ initpc = "done" => timers = 1

\* The initial load failed and the polling loop runs.
C4_Witness ==
  /\ initpc = "done"
  /\ ~initialized
  /\ timers = 1

\* ---- C5 ------------------------------------------------------------------

\* C5 as stated: an engine is initialized after any getAllDocs that completes
\* successfully, whoever called it.
C5_AsStated ==
  [][ev'.op = "refreshOk" => initialized']_vars

\* ---- C6 ------------------------------------------------------------------

\* C6: while the initial getAllDocs of initializeService is in flight (and
\* before it is called), no interval timer exists, no branch request has been
\* sent and no head is on record; the initial load is the one getAllDocs call
\* of initializeService.
C6_InitialLoadBeforePolling ==
  /\ initpc \in {"new", "refresh"}
       => /\ timers = 0
          /\ \A s \in Polls : pollpc[s] = "idle"
          /\ lastCommitSha = Null
  /\ (initpc = "refresh") <=> (ga[InitTask].pc # "idle")

\* The initial load is at its last step and polling has not started.
C6_Witness ==
  /\ initpc = "refresh"
  /\ ga[InitTask].pc = "fill"
  /\ timers = 0

\* ---- C7 ------------------------------------------------------------------

\* C7: once the listing has arrived, getAllDocs ends only by returning: with N
\* files listed and k of them failed it returns, and leaves in the cache,
\* exactly the N - k documents of the files that succeeded.
C7_PerFileFailureTolerated ==
  [][\A t \in Tasks :
       (ga[t].pc \in {"files", "fill"} /\ ga'[t].pc = "idle")
         => /\ ev' = Ev("refreshOk", t)
            /\ cache' = DocMap(ga[t])
            /\ {f \in Files : cache'[f] # 0} = ga[t].listed \ FailedOf(ga[t])
            /\ Cardinality(DocsOf(ga[t]))
                 = Cardinality(ga[t].listed) - Cardinality(FailedOf(ga[t]))]_vars

\* A refresh of two listed files, one of which failed, has returned and the
\* cache holds one document.
C7_Witness ==
  /\ ev.op = "refreshOk"
  /\ Cardinality({f \in Files : cache[f] # 0}) = MaxFiles - 1
  /\ \A f \in Files : remote[f] # 0

\* ---- C8 ------------------------------------------------------------------

\* C8: every getCachedDocs call returns a cache that a completed handler left:
\* never the cleared or half-filled cache of a replacement in progress.
C8_ReadersSeeWholeSets ==
  ev.op = "read" => cache = stable

\* A reader ran while a refresh was in flight over a non-empty cache.
C8_Witness ==
  /\ ev.op = "read"
  /\ cache # NoDocs
  /\ \E t \in Tasks : ga[t].pc = "files"

\* ---- C9 ------------------------------------------------------------------

\* C9: when the listing fails, getAllDocs leaves the cache as it was and
\* throws to its caller: initializeService takes its catch branch, a poll
\* cycle ends without notifying or recording the head.
C9_ListingFailureKeepsCache ==
  [][\A t \in Tasks :
       (ga[t].pc = "tree" /\ ga'[t].pc = "idle")
         => /\ cache' = cache
            /\ ev' = Ev("refreshThrew", t)
            /\ ~notified'
            /\ initialized' = initialized
            /\ lastCommitSha' = lastCommitSha]_vars

\* A listing has just failed over a cache that holds documents.
C9_Witness ==
  /\ ev.op = "refreshThrew"
  /\ cache # NoDocs

\* ---- C10 -----------------------------------------------------------------

\* C10 as stated: a getAllDocs that completes notifies the listeners if and
\* only if the document set it stored differs from the set cached before it.
C10_AsStated ==
  [][ev'.op = "refreshOk" => (notified' <=> cache' # stable)]_vars

\* ---- C11 -----------------------------------------------------------------

\* the step is getDoc(s) up to its first await
GetDocCalled(s) ==
  /\ gc[s].pc = "idle"
  /\ ev'.task = s
  /\ ev'.op \in {"getDocHit", "getDocFetch", "getDocThrew"}

\* C11 as stated: a getDoc call on a slug whose entry is older than the
\* freshness window completes at once, without a content request in flight.
C11_AsStated ==
  [][\A s \in Files :
       (GetDocCalled(s) /\ Lookup(mem, s) # Absent
          /\ now - Lookup(mem, s) > CACHE_DURATION)
         => (gc'[s].pc = "idle" /\ ev'.op = "getDocHit")]_vars

\* ---- C12 -----------------------------------------------------------------

\* the operations with which getDocBySlug returns null
NullReturns == {"docMiss", "docFailed404", "docFailedTransient"}

\* C12 as stated: getDocBySlug returns null only when the slug has no cached
\* value and the direct fetch it made has failed; a miss on an initialized
\* service returns a document.
C12_AsStated ==
  [][ev'.op \in NullReturns
       => (ev'.op \in {"docFailed404", "docFailedTransient"}
             /\ cache[ev'.task] = 0)]_vars

\* ---- C13 -----------------------------------------------------------------

\* the step is getDocBySlug(f) up to its first await
GetDocBySlugCalled(f) ==
  /\ gd[f] = "idle"
  /\ ev'.task = f
  /\ ev'.op \in {"docHit", "docFetch", "docMiss"}

\* C13: on a service that has not completed its initial load, getDocBySlug
\* for a slug that is not cached sends the content request of that one file;
\* when the request succeeds the document is stored in the cache under the
\* slug and returned; and a call for a slug that is in the cache returns the
\* cached document and sends no request.
C13_ColdMissFetchedAndCached ==
  [][\A f \in Files :
       /\ (GetDocBySlugCalled(f) /\ ~initialized /\ cache[f] = 0)
            => (ev'.op = "docFetch" /\ gd'[f] = "fetch" /\ cache' = cache)
       /\ (ev'.op = "docFetched" /\ ev'.task = f)
            => (gd[f] = "fetch" /\ cache'[f] = remote[f] /\ cache'[f] # 0
                  /\ page'.st = "doc")
       /\ (GetDocBySlugCalled(f) /\ cache[f] # 0)
            => (ev'.op = "docHit" /\ gd' = gd /\ cache' = cache
                  /\ page'.st = "doc")]_vars

\* A call has just been served from the cache with the document that an
\* earlier direct fetch stored: the service is not initialized.
C13_Witness ==
  /\ ev.op = "docHit"
  /\ ~initialized
  /\ cache[ev.task] # 0
  /\ page = [st |-> "doc", slug |-> ev.task]

\* ---- C14 -----------------------------------------------------------------

\* C14 as stated: a stored document list stays stored through every read
\* (getCachedDocs, isCacheValid) and through the passing of time; only
\* setCachedDocs and clearCache, called by the application, change it.
C14_AsStated ==
  [][(sdocs # 0 /\ ev'.op \notin {"setCachedDocs", "clearCachedDocs"})
       => (sdocs' = sdocs /\ stamp' = stamp)]_vars

\* ---- C15 -----------------------------------------------------------------

\* an age counts as inside the window: strictly below it, or up to it
WithinWindow(age, strict) ==
  IF strict THEN age < CACHE_DURATION ELSE age <= CACHE_DURATION

\* Every verdict the step gives on an entry is "fresh" exactly when the age of
\* the entry is inside the window: getDoc returns the cached entry without a
\* request, isCacheValid answers true, getCachedDocs does not evict.
FreshnessVerdicts(strict) ==
  /\ \A s \in Files :
       (GetDocCalled(s) /\ Lookup(mem, s) # Absent)
         => ((ev'.op = "getDocHit")
               <=> WithinWindow(now - Lookup(mem, s), strict))
  /\ (stamp # Absent /\ ev'.op \in {"cacheValid", "cacheInvalid"})
       => ((ev'.op = "cacheValid") <=> WithinWindow(now - stamp, strict))
  /\ (stamp # Absent /\ ev'.op \in {"cachedDocs", "cachedNull", "cachedExpired"})
       => ((ev'.op # "cachedExpired") <=> WithinWindow(now - stamp, strict))

\* C15 as stated: an entry is treated as fresh if and only if its age is
\* strictly less than the window; at an age equal to the window it is stale.
C15_AsStated == [][FreshnessVerdicts(TRUE)]_vars

\* C15 (amended): an entry is treated as fresh if and only if its age is at
\* most the window; at an age equal to the window it is still fresh, and it
\* is stale only when its age is strictly greater.
C15_FreshUpToWindow == [][FreshnessVerdicts(FALSE)]_vars

\* getDoc has just returned, without a request, an entry whose age is the
\* window exactly.
C15_Witness ==
  /\ ev.op = "getDocHit"
  /\ now - Lookup(mem, ev.task) = CACHE_DURATION

\* ---- C16 -----------------------------------------------------------------

\* the document map a localStorage item holds: the entries of a saved object,
\* nothing for an absent or unreadable item or for any other JSON value
SnapshotDocs(item) == IF item.kind = "json" THEN item.val.docs ELSE NoEntries

\* C16 as stated: after hydration, after every getDoc that stored a document
\* and saved the snapshot, and after every clearCache, the snapshot in
\* localStorage holds the documents that this.cache holds; after clearCache
\* both hold none.
C16_AsStated ==
  /\ SnapshotDocs(storage) = mem.docs
  /\ [][(ev'.op \in {"getDocStored", "clearCache"}
            => SnapshotDocs(storage') = mem'.docs)
        /\ (ev'.op = "clearCache"
              => (mem'.docs = NoEntries /\ SnapshotDocs(storage') = NoEntries))]_vars

\* ---- C17 -----------------------------------------------------------------

\* C17 as stated: whatever localStorage held when the cache was constructed,
\* every later getDoc call completes with a document or null: none throws.
C17_AsStated ==
  [][\A s \in Files : GetDocCalled(s) => ev'.op # "getDocThrew"]_vars

\* ---- C18 -----------------------------------------------------------------

\* C18 as stated: when the load of a document fails with a transient error
\* (not a 404) and the slug has no cached value, the page does not end in the
\* not-found state.
C18_AsStated ==
  [][(ev'.op = "docFailedTransient" /\ cache[ev'.task] = 0)
       => page'.st # "notFound"]_vars

\* ---- C19 -----------------------------------------------------------------

\* C19: the listeners are invoked only by a poll cycle whose getAllDocs has
\* returned, and by then the swap is done: the cache holds exactly the
\* documents that this getAllDocs collected, and a callback that reads
\* getCachedDocs (the handler of useGitHubDocsList) gets that complete set,
\* not the set of before the refresh and not a partly filled cache.
C19_ListenersSeeCommittedSet ==
  [][/\ notified' => (ev'.op = "refreshOk" /\ ev'.task \in Polls)
     /\ \A t \in Polls :
          ev' = Ev("refreshOk", t)
            => /\ notified'
               /\ cache' = DocMap(ga[t])
               /\ mounted => hookDocs' = DocMap(ga[t])]_vars

\* A poll cycle has just notified the mounted hook, whose docs are the new
\* cache and hold a document written by a later commit than the first.
C19_Witness ==
  /\ notified
  /\ mounted
  /\ hookDocs = cache
  /\ \E f \in Files : cache[f] > 1
  /\ ev.task \in Polls

\* ---- C20 -----------------------------------------------------------------

\* the positions in navDocs of the documents of the section whose first
\* segment is key
GroupMembers(key) ==
  {i \in 1..Len(navDocs) :
     InSection(navSection, navDocs[i].slug) /\ navDocs[i].slug[1] = key}

\* the position in navDocs of the document with this slug
PosOf(slug) == CHOOSE i \in 1..Len(navDocs) : navDocs[i].slug = slug

\* the nodes of the tree whose slug is the key
NodesOf(key) == {n \in 1..Len(navTree.nodes) : navTree.nodes[n].slug = <<key>>}

\* C20: in the tree built from a list of documents with distinct slugs, every
\* group (the documents of the section that share a first segment) has one
\* node; when a document's slug is the group key that document is the node,
\* and the children of the node are the other documents of the group, each
\* once, in ascending order, documents of equal order in the order of the
\* input list.
C20_GroupParentAndSortedChildren ==
  navTree.built =>
    \A key \in {s[1] : s \in Slugs} :
      GroupMembers(key) # {} =>
        /\ Cardinality(NodesOf(key)) = 1
        /\ \A n \in NodesOf(key) :
             LET node     == navTree.nodes[n]
                 children == node.children
                 others   == {i \in GroupMembers(key) : navDocs[i].slug # <<key>>}
             IN /\ \A i \in GroupMembers(key) :
                     navDocs[i].slug = <<key>>
                       => (node.order = navDocs[i].order
                             /\ node.title = navDocs[i].title)
                /\ Len(children) = Cardinality(others)
                /\ \A c \in 1..Len(children) :
                     \E i \in others : children[c] = NavItem(navDocs[i])
                /\ \A c, d \in 1..Len(children) :
                     c < d => /\ children[c].order <= children[d].order
                              /\ children[c].order = children[d].order
                                   => PosOf(children[c].slug) < PosOf(children[d].slug)

\* A tree has been built in which the document "guides" is the parent of two
\* children of equal order.
C20_Witness ==
  /\ navTree.built
  /\ \E n \in 1..Len(navTree.nodes) :
       /\ navTree.nodes[n].slug = <<"guides">>
       /\ \E i \in 1..Len(navDocs) : navDocs[i].slug = <<"guides">>
       /\ Len(navTree.nodes[n].children) = 2
       /\ navTree.nodes[n].children[1].order = navTree.nodes[n].children[2].order

\* ---- C21 -----------------------------------------------------------------

\* p followed by '/' is a prefix of s: the segments of p are the first
\* segments of s, and s has more
StrictPathPrefix(p, s) ==
  /\ Len(p) < Len(s)
  /\ SubSeq(s, 1, Len(p)) = p

\* C21: in the tree built from any list of documents and any section, the
\* slug of every node is a strict path-prefix of the slug of each of its
\* children.
C21_ParentSlugPrefixesChildren ==
  navTree.built =>
    \A n \in 1..Len(navTree.nodes) :
      \A c \in 1..Len(navTree.nodes[n].children) :
        StrictPathPrefix(navTree.nodes[n].slug, navTree.nodes[n].children[c].slug)

\* A tree has been built with two nodes that both have children, one a
\* document of the list and one synthesized from its group key.
C21_Witness ==
  /\ navTree.built
  /\ \E n, m \in 1..Len(navTree.nodes) :
       /\ navTree.nodes[n].children # <<>>
       /\ navTree.nodes[m].children # <<>>
       /\ \E i \in 1..Len(navDocs) : navDocs[i].slug = navTree.nodes[n].slug
       /\ \A i \in 1..Len(navDocs) : navDocs[i].slug # navTree.nodes[m].slug

\* ---- C22 -----------------------------------------------------------------

\* The title-cased, space-separated form of a key: every hyphen is a space
\* and the first letter of every word is a capital.
RECURSIVE TitleCased(_, _)
TitleCased(s, wordStart) ==
  IF s = "" THEN ""
  ELSE IF Head(s) = "-" THEN " " \o TitleCased(Tail(s), TRUE)
  ELSE (IF wordStart THEN ToUpperCase(Head(s)) ELSE Head(s))
         \o TitleCased(Tail(s), FALSE)

\* the children the node of the group has: the documents of the group other
\* than the one whose slug is the key, sorted
ChildrenOf(key) ==
  LET InGroup(d) == /\ InSection(navSection, d.slug)
                    /\ d.slug[1] = key
                    /\ d.slug # <<key>>
      Item(i)    == NavItem(SelectSeq(navDocs, InGroup)[i])
  IN SortByOrder([i \in 1..Len(SelectSeq(navDocs, InGroup)) |-> Item(i)], <<>>)

\* the group has documents and none of them has the key as its slug
NoParentDocument(key) ==
  /\ GroupMembers(key) # {}
  /\ \A i \in GroupMembers(key) : navDocs[i].slug # <<key>>

\* C22 as stated: a group without a document whose slug is the key has
\* exactly one node, with the key as slug, the order of the first sorted
\* child, and the key's title-cased form (every word capitalised) as title.
C22_AsStated ==
  navTree.built =>
    \A key \in {s[1] : s \in Slugs} :
      NoParentDocument(key) =>
        /\ Cardinality(NodesOf(key)) = 1
        /\ \A n \in NodesOf(key) :
             /\ navTree.nodes[n].order = ChildrenOf(key)[1].order
             /\ navTree.nodes[n].title = TitleCased(key, TRUE)

\* ---- C23 -----------------------------------------------------------------

\* A metadata record the frontmatter format can carry: the optional fields
\* that are present are not empty, and no tag holds a comma.
ValidMetadata(m) ==
  /\ Has(m, "title")
  /\ Has(m, "description") => m["description"].str # ""
  /\ Has(m, "icon") => m["icon"].str # ""
  /\ Has(m, "tags") =>
       /\ m["tags"].arr # <<>>
       /\ \A i \in 1..Len(m["tags"].arr) : IndexOf(m["tags"].arr[i], ",") = 0

\* a document with valid metadata was serialized and the text parsed
RoundTripDone == fmOut # NoOut /\ fmMeta # NoMetadata /\ ValidMetadata(fmMeta)

HasOpeningLine(text) == Split(text, "\n")[1] = "---"

\* a later line of the text is the delimiter
HasClosingLine(text) ==
  \E i \in 2..Len(Split(text, "\n")) : Split(text, "\n")[i] = "---"

\* { title: "Untitled", order: 0 }
DefaultMetadata ==
  SetKey(SetKey(NoMetadata, "title", StrVal("Untitled")), "order", NumVal(0))

\* C24 as stated: for a text without an opening delimiter line or without a
\* closing delimiter line, each parser returns the metadata
\* {title: "Untitled", order: 0} and the whole trimmed text as body.
C24_AsStated ==
  (fmOut # NoOut /\ fmMeta = NoMetadata
     /\ ~(HasOpeningLine(fmText) /\ HasClosingLine(fmText)))
    => /\ fmOut.metadata = DefaultMetadata
       /\ fmOut.content = Trim(fmText)

\* ---- C25 -----------------------------------------------------------------

\* the slugs that have an entry in the cache
CachedSlugs(c) == {f \in Files : c[f] # 0}

\* C25: when a getAllDocs call returns, the slugs in the cache are exactly
\* the files of its listing whose promise gave a document: a file that is no
\* longer listed and a file whose fetch failed in this call have no entry,
\* whatever the cache held before.
C25_CacheIsTheRefreshedSet ==
  [][\A t \in Tasks :
       (ev'.op = "refreshOk" /\ ev'.task = t)
         => CachedSlugs(cache') = DocsOf(ga[t])]_vars

\* A poll cycle's refresh has just returned after the initial load filled
\* the cache; one file of the repository has no entry (its fetch failed in
\* this refresh, or it was added after the listing), another has its entry.
C25_Witness ==
  /\ ev.op = "refreshOk"
  /\ ev.task \in Polls
  /\ initialized
  /\ \E f, g \in Files :
       /\ remote[f] > 0 /\ cache[f] = 0
       /\ cache[g] # 0

\* ---- C26 -----------------------------------------------------------------

\* C26 as stated: one change of the head starts one refresh; no two poll
\* cycles are refreshing at once for the same observed head.
C26_AsStated ==
  \A s, t \in Polls :
    (s # t /\ pollpc[s] = "refresh" /\ pollpc[t] = "refresh")
      => pollSha[s] # pollSha[t]

\* ---- C27 -----------------------------------------------------------------

\* The component is mounted and its fetchDocs has come back with the
\* documents: its getAllDocs, started after the one of initializeService,
\* has completed.
HookLoadDone == mounted /\ ga[HookTask].pc = "idle" /\ ~hookError

\* C27 as stated, for the initial load and the hook's load: when the
\* getAllDocs of initializeService returns after the one of the hook, which
\* started later, the cache holds the documents the hook's call read.
C27_AsStated ==
  [][(ev'.op = "refreshOk" /\ ev'.task = InitTask /\ HookLoadDone)
       => cache' = hookDocs]_vars

\* ---- C28 -----------------------------------------------------------------

\* how many times a callback was called by the last notification
TimesInvoked(cb) == Cardinality({i \in 1..Len(invoked) : invoked[i] = cb})

\* C28: the step in which createOrUpdateDoc succeeds sets the cache entry of
\* the slug to the saved document, leaves the other entries alone and calls
\* every registered listener once (the hook's handler then shows the cache);
\* the step in which it throws changes no cache entry and calls no listener.
C28_SaveCommitsAndNotifiesOnSuccessOnly ==
  [][/\ ev'.op = "saved" =>
          /\ cache'[save.slug] = save.doc
          /\ \A f \in Files \ {save.slug} : cache'[f] = cache[f]
          /\ notified'
          /\ Range(invoked') = Range(listeners)
          /\ \A cb \in Range(listeners) : TimesInvoked(cb)' = 1
          /\ HandleUpdate \in Range(listeners) => hookDocs' = cache'
     /\ ev'.op = "saveThrew" =>
          /\ cache' = cache
          /\ ~notified'
          /\ invoked' = <<>>
          /\ hookDocs' = hookDocs]_vars

\* A save has just succeeded with the hook's handler registered: the entry of
\* the saved slug is the document of the newest commit, the handler was
\* called and the hook shows the cache.
C28_Witness ==
  /\ ev.op = "saved"
  /\ invoked = <<HandleUpdate>>
  /\ hookDocs = cache
  /\ \E f \in Files : cache[f] = head /\ head > 1 /\ remote[f] = head

\* ---- C29 -----------------------------------------------------------------

\* C29 as stated: once a handler has completed, the cache entry of a slug
\* whose save succeeded never holds a document older than the saved one
\* (documents are named by the commit that wrote them, so older is smaller).
C29_AsStated ==
  \A f \in Files :
    (save.done[f] # 0 /\ stable[f] # 0) => stable[f] >= save.done[f]

\* ---- C30 -----------------------------------------------------------------

\* how many times a callback is in the registry
TimesRegistered(cb) == Cardinality({i \in 1..Len(listeners) : listeners[i] = cb})

\* C30: a notification calls every callback that is registered once, and no
\* other; a callback is registered once however often it was added, is not
\* registered after removeListener, and stays as it is across every other
\* step; the hook's handler is registered exactly while the component is
\* mounted.
C30_EachListenerOncePerNotification ==
  [][/\ notified' =>
          \A cb \in {HandleUpdate, OtherCallback} :
            TimesInvoked(cb)' = IF cb \in Range(listeners) THEN 1 ELSE 0
     /\ ev'.op = "addListener" => TimesRegistered(OtherCallback)' = 1
     /\ ev'.op = "removeListener" => TimesRegistered(OtherCallback)' = 0
     /\ ev'.op \notin {"addListener", "removeListener"} =>
          TimesRegistered(OtherCallback)' = TimesRegistered(OtherCallback)
     /\ TimesRegistered(HandleUpdate)' = IF mounted' THEN 1 ELSE 0]_vars

\* A save has just notified two callbacks, the other subscriber's, which was
\* registered first, and the handler of the mounted hook.
C30_Witness ==
  /\ ev.op = "saved"
  /\ mounted
  /\ invoked = <<OtherCallback, HandleUpdate>>

====
